---- MODULE Spec2Model ----
(***************************************************************************)
(* Model of the dataviz data engine: the numeric locale disambiguator      *)
(* (engine/detector.ts parseNumber), the column type detector              *)
(* (engine/detector.ts detectSingleColumnType) and the mapping validator   *)
(* (engine/validator.ts validateMapping).                                  *)
(*                                                                         *)
(* A JavaScript string is modelled as a sequence of one-character strings, *)
(* so that indexOf, replace, trim and the regular expressions are computed *)
(* character by character as the code computes them.                       *)
(***************************************************************************)
EXTENDS Integers, Sequences, FiniteSets, TLC

VARIABLES pnValue, pnResult,
          dtValues, dtResult,
          vmDimensions, vmMapping, vmColumns, vmResult,
          agValues, agMethod, agResult,
          gaData, gaMethod, gaResult,
          dcData, dcResult,
          ptText, ptResult,
          store, parseErrors, uploads, lastParse,
          pnByPatterns,
          cmChart, cmData, cmMapping, cmResult,
          lastMapData, lastCall,
          heap, call

\* the arguments and results of the engine functions of the first sections
engineVars == <<pnValue, pnResult, dtValues, dtResult,
                vmDimensions, vmMapping, vmColumns, vmResult>>

\* the arguments and results of aggregate, groupAndAggregate,
\* detectColumnTypes and parseText
tableVars == <<agValues, agMethod, agResult, gaData, gaMethod, gaResult,
               dcData, dcResult, ptText, ptResult>>

\* the application store and the state of the DataInput component
inputVars == <<store, parseErrors, uploads, lastParse>>

\* the arguments and result of a chart's mapData
mapDataVars == <<cmChart, cmData, cmMapping, cmResult>>

\* the last run of mapData by an effect of a step component and the last
\* action called on the store
flowVars == <<lastMapData, lastCall>>

\* the result of the regex-only parseNumber and the variables of the charts
\* and of the workflow
\* the arrays the engine functions are called on and the call made
heapVars == <<heap, call>>

chartVars == <<pnByPatterns, mapDataVars, flowVars, heapVars>>

vars == <<engineVars, tableVars, inputVars, chartVars>>

\* the variables of the table functions and of the DataInput component, unused
TableIdle ==
    /\ agValues = <<>> /\ agMethod = "none" /\ agResult = <<>>
    /\ gaData = <<>> /\ gaMethod = "none" /\ gaResult = <<>>
    /\ dcData = <<>> /\ dcResult = <<>>
    /\ ptText = <<>> /\ ptResult = <<>>

InputIdle ==
    /\ store = <<>> /\ parseErrors = <<>> /\ uploads = {} /\ lastParse = <<>>

MapDataIdle == cmChart = "none" /\ cmData = <<>> /\ cmMapping = <<>> /\ cmResult = <<>>

FlowIdle == lastMapData = <<>> /\ lastCall = "none"

NoCall == [fn |-> "none", method |-> "none", result |-> <<>>, count |-> 0]

HeapIdle == heap = <<>> /\ call = NoCall

ChartIdle == pnByPatterns = <<>> /\ MapDataIdle /\ FlowIdle /\ HeapIdle

(***************************************************************************)
(* Bounds of the model.                                                    *)
(***************************************************************************)
\* longest input string drawn freely from Alphabet
MaxLen == 4
\* most separator-and-digits groups appended to a leading digit run
MaxGroups == 3

(***************************************************************************)
(* Strings.                                                                *)
(***************************************************************************)
Digits == {"0", "1", "2", "3", "4", "5", "6", "7", "8", "9"}

\* \d of the regular expressions
IsDigit(c) == c \in Digits

\* the white space String.prototype.trim removes (space, tab and line feed
\* are drawn)
IsSpace(c) == c \in {" ", "\t", "\n"}

AllDigits(s) == \A i \in 1..Len(s) : IsDigit(s[i])

RECURSIVE TrimStart(_)
TrimStart(s) ==
    IF s # <<>> /\ IsSpace(s[1]) THEN TrimStart(Tail(s)) ELSE s

RECURSIVE TrimEnd(_)
TrimEnd(s) ==
    IF s # <<>> /\ IsSpace(s[Len(s)]) THEN TrimEnd(SubSeq(s, 1, Len(s) - 1)) ELSE s

\* value.trim()
Trim(s) == TrimEnd(TrimStart(s))

\* trimmed.includes(c)
Includes(s, c) == \E i \in 1..Len(s) : s[i] = c

\* trimmed.lastIndexOf(c), counted from 1; 0 when c does not occur (-1 in JS)
LastIndexOf(s, c) ==
    IF Includes(s, c) THEN CHOOSE i \in 1..Len(s) : s[i] = c /\ \A j \in (i+1)..Len(s) : s[j] # c
    ELSE 0

\* s.indexOf(c), counted from 1; 0 when c does not occur
IndexOf(s, c) ==
    IF Includes(s, c) THEN CHOOSE i \in 1..Len(s) : s[i] = c /\ \A j \in 1..(i-1) : s[j] # c
    ELSE 0

\* s.replace(/c/g, "")
RECURSIVE RemoveAll(_, _)
RemoveAll(s, c) ==
    IF s = <<>> THEN <<>>
    ELSE IF s[1] = c THEN RemoveAll(Tail(s), c)
    ELSE <<s[1]>> \o RemoveAll(Tail(s), c)

\* s.replace(c, d) with a string pattern: only the first occurrence is replaced
ReplaceFirst(s, c, d) ==
    IF Includes(s, c) THEN [s EXCEPT ![IndexOf(s, c)] = d] ELSE s

(***************************************************************************)
(* Numbers.  A finite number is kept exactly, as its sign, the digits of   *)
(* its integer part without leading zeros and the digits of its fraction   *)
(* without trailing zeros, so that 1.50 and 1.5 are the same value and     *)
(* 1000 and 1.000 (read as a decimal) are told apart from each other only  *)
(* by their value.  -0 and 0 are one value, as under ===.  The inputs      *)
(* drawn stay below 16 significant digits, where a double is exact.        *)
(***************************************************************************)
Null == [kind |-> "null", neg |-> FALSE, int |-> <<>>, frac |-> <<>>]
NaN == [kind |-> "NaN", neg |-> FALSE, int |-> <<>>, frac |-> <<>>]
Infinity(neg) == [kind |-> "inf", neg |-> neg, int |-> <<>>, frac |-> <<>>]
Pending == [kind |-> "pending", neg |-> FALSE, int |-> <<>>, frac |-> <<>>]

RECURSIVE StripLeadingZeros(_)
StripLeadingZeros(d) ==
    IF d # <<>> /\ d[1] = "0" THEN StripLeadingZeros(Tail(d)) ELSE d

RECURSIVE StripTrailingZeros(_)
StripTrailingZeros(d) ==
    IF d # <<>> /\ d[Len(d)] = "0" THEN StripTrailingZeros(SubSeq(d, 1, Len(d) - 1)) ELSE d

\* the value written by the digits ip "." fp with the sign neg
Finite(neg, ip, fp) ==
    LET i == StripLeadingZeros(ip)
        f == StripTrailingZeros(fp)
    IN  [kind |-> "num", neg |-> neg /\ (i # <<>> \/ f # <<>>), int |-> i, frac |-> f]

InfinityLiteral == <<"I", "n", "f", "i", "n", "i", "t", "y">>

\* StrUnsignedDecimalLiteral without an exponent part:
\* Infinity | digits "." digits? | "." digits | digits
UnsignedToNumber(neg, u) ==
    IF u = InfinityLiteral THEN Infinity(neg)
    ELSE LET dot == IndexOf(u, ".")
             ip == IF dot = 0 THEN u ELSE SubSeq(u, 1, dot - 1)
             fp == IF dot = 0 THEN <<>> ELSE SubSeq(u, dot + 1, Len(u))
         IN  IF AllDigits(ip) /\ AllDigits(fp) /\ Len(ip) + Len(fp) >= 1
             THEN Finite(neg, ip, fp)
             ELSE NaN

\* Number(s) on a string: white space around the literal is dropped, the empty
\* string is 0, an optional sign precedes the literal, anything else is NaN.
\* Exponents and the 0x/0o/0b forms are left out: no drawn input holds
\* their letters.
StringToNumber(s) ==
    LET t == Trim(s)
    IN  IF t = <<>> THEN Finite(FALSE, <<>>, <<>>)
        ELSE IF t[1] = "-" THEN UnsignedToNumber(TRUE, Tail(t))
        ELSE IF t[1] = "+" THEN UnsignedToNumber(FALSE, Tail(t))
        ELSE UnsignedToNumber(FALSE, t)

\* isNaN(n) ? null : n
NullIfNaN(n) == IF n = NaN THEN Null ELSE n

(***************************************************************************)
(* parseNumber (engine/detector.ts, the last-separator-wins variant).      *)
(***************************************************************************)
IsEmptyTokenNoEmptyCheck(trimmed) == trimmed = <<"-">>

\* trimmed === "" || trimmed === "-"
IsEmptyToken(trimmed) == trimmed = <<>> \/ trimmed = <<"-">>

CommaIsDecimalFlipped(trimmed) == LastIndexOf(trimmed, ",") < LastIndexOf(trimmed, ".")

\* lastComma > lastDot
CommaIsDecimal(trimmed) == LastIndexOf(trimmed, ",") > LastIndexOf(trimmed, ".")

\* branch 1: both separators present, the last one is the decimal separator
ParseBothSeparators(trimmed) ==
    IF CommaIsDecimal(trimmed)
    THEN NullIfNaN(StringToNumber(ReplaceFirst(RemoveAll(trimmed, "."), ",", ".")))
    ELSE NullIfNaN(StringToNumber(RemoveAll(trimmed, ",")))

\* (sep\d{3})+$ : one or more groups of sep and exactly three digits
RECURSIVE MatchesGroups(_, _)
MatchesGroups(s, sep) ==
    /\ Len(s) >= 4
    /\ s[1] = sep
    /\ IsDigit(s[2]) /\ IsDigit(s[3]) /\ IsDigit(s[4])
    /\ (Len(s) = 4 \/ MatchesGroups(SubSeq(s, 5, Len(s)), sep))

\* ^-?  : the rest of the string after an optional minus sign
AfterOptionalMinus(s) == IF s # <<>> /\ s[1] = "-" THEN Tail(s) ELSE s

MatchesThousandsSingleGroup(trimmed, sep) ==
    LET u == AfterOptionalMinus(trimmed)
    IN  \E k \in 1..3 :
          /\ Len(u) = k + 4
          /\ AllDigits(SubSeq(u, 1, k))
          /\ MatchesGroups(SubSeq(u, k + 1, Len(u)), sep)

\* /^-?\d{1,3}(,\d{3})+$/ with sep "," and /^-?\d{1,3}(\.\d{3})+$/ with sep "."
MatchesThousands(trimmed, sep) ==
    LET u == AfterOptionalMinus(trimmed)
    IN  \E k \in 1..3 :
          /\ Len(u) > k
          /\ AllDigits(SubSeq(u, 1, k))
          /\ MatchesGroups(SubSeq(u, k + 1, Len(u)), sep)

MatchesCommaDecimalShortLead(trimmed) ==
    LET u == AfterOptionalMinus(trimmed)
        c == IndexOf(u, ",")
    IN  /\ c > 1
        /\ c <= 4
        /\ c < Len(u)
        /\ AllDigits(SubSeq(u, 1, c - 1))
        /\ AllDigits(SubSeq(u, c + 1, Len(u)))

\* /^-?\d+(,\d+)$/
MatchesCommaDecimal(trimmed) ==
    LET u == AfterOptionalMinus(trimmed)
        c == IndexOf(u, ",")
    IN  /\ c > 1
        /\ c < Len(u)
        /\ AllDigits(SubSeq(u, 1, c - 1))
        /\ AllDigits(SubSeq(u, c + 1, Len(u)))

parseNumber(value) ==
    LET trimmed == Trim(value)
        hasComma == Includes(trimmed, ",")
        hasDot == Includes(trimmed, ".")
    IN  IF IsEmptyToken(trimmed) THEN Null
        ELSE IF hasComma /\ hasDot THEN ParseBothSeparators(trimmed)
        ELSE IF hasComma /\ MatchesThousands(trimmed, ",")
             THEN NullIfNaN(StringToNumber(RemoveAll(trimmed, ",")))
        ELSE IF hasComma /\ MatchesCommaDecimal(trimmed)
             THEN NullIfNaN(StringToNumber(ReplaceFirst(trimmed, ",", ".")))
        ELSE IF hasDot /\ MatchesThousands(trimmed, ".")
             THEN NullIfNaN(StringToNumber(RemoveAll(trimmed, ".")))
        ELSE NullIfNaN(StringToNumber(trimmed))

(***************************************************************************)
(* Inputs of parseNumber: every string over Alphabet up to MaxLen, the     *)
(* grouped numerals (a leading digit run followed by up to MaxGroups       *)
(* groups of a separator and a digit run) and the literals of the tests.   *)
(***************************************************************************)
Alphabet == {"1", "0", ",", ".", "-", "a", " "}

FreeStrings == UNION {[1..n -> Alphabet] : n \in 0..MaxLen}

Signs == {<<>>, <<"-">>}
Leads == {<<"1">>, <<"1", "2">>, <<"1", "2", "3">>, <<"1", "2", "3", "4">>}
Segments == {<<"0", "0", "0">>, <<"2", "3", "4">>, <<"5", "6", "7">>, <<"8", "9">>}
Separators == {",", "."}

RECURSIVE Grouped(_)
Grouped(n) ==
    IF n = 0 THEN {s \o l : s \in Signs, l \in Leads}
    ELSE {g \o <<sep>> \o seg : g \in Grouped(n - 1), sep \in Separators, seg \in Segments}

GroupedNumerals == UNION {Grouped(n) : n \in 0..MaxGroups}

Literals ==
    { <<"4", "2">>, <<"-", "7">>, <<"3", ".", "1", "4">>, <<"-", "0", ".", "5">>,
      <<"1", "2", ",", "3", "4", "5">>, <<"1", "2", ".", "3", "4", "5">>,
      <<"a", "b", "c">>, <<"N", "/", "A">>,
      <<"3", ",", "1", "4">>, <<"1", "2", ",", "3", "4">>, <<"1", "2", "3", "4", ",", "5">>,
      <<"1", "2", "a", "b", "c">>, <<"1", ",", "2", ",", "3">>, <<"1", ".", "2", ".", "3">>,
      <<",", " ", "1", ".", "5">>,
      InfinityLiteral, <<"-">> \o InfinityLiteral, <<"+", "5">> }

Inputs == FreeStrings \cup GroupedNumerals \cup Literals

InitParse ==
    /\ pnValue \in Inputs /\ pnResult = Pending
    /\ dtValues = <<>> /\ dtResult = "pending"
    /\ vmDimensions = <<>> /\ vmMapping = <<>> /\ vmColumns = <<>>
    /\ vmResult = [isValid |-> TRUE, errors |-> <<>>, warnings |-> <<>>, done |-> FALSE]
    /\ TableIdle /\ InputIdle /\ ChartIdle

\* a call of parseNumber on the drawn string
ParseNumber ==
    /\ pnResult = Pending
    /\ pnResult' = parseNumber(pnValue)
    /\ UNCHANGED <<pnValue, dtValues, dtResult, vmDimensions, vmMapping, vmColumns, vmResult,
                 tableVars, inputVars, chartVars>>

NextParse == ParseNumber

SpecParse == InitParse /\ [][NextParse]_vars

(***************************************************************************)
(* Claims about parseNumber, checked under SpecParse.                      *)
(***************************************************************************)
Parsed == pnResult # Pending

Positions(s, c) == {i \in 1..Len(s) : s[i] = c}

SetMax(S) == CHOOSE m \in S : \A x \in S : x <= m

HasBothSeparators(s) == Positions(s, ",") # {} /\ Positions(s, ".") # {}

\* the separator whose last occurrence has the greater index
DecimalSeparator(s) ==
    IF SetMax(Positions(s, ",")) > SetMax(Positions(s, ".")) THEN "," ELSE "."

GroupingSeparator(s) == IF DecimalSeparator(s) = "," THEN "." ELSE ","

\* s without its grouping separators, its decimal separator written as a point
WrittenNumeral(s) ==
    LET kept == SelectSeq(s, LAMBDA c : c # GroupingSeparator(s))
    IN  [i \in 1..Len(kept) |-> IF kept[i] = DecimalSeparator(s) THEN "." ELSE kept[i]]

Num1234567p89 ==
    [kind |-> "num", neg |-> FALSE,
     int |-> <<"1", "2", "3", "4", "5", "6", "7">>, frac |-> <<"8", "9">>]

EuExample == <<"1", ".", "2", "3", "4", ".", "5", "6", "7", ",", "8", "9">>
UsExample == <<"1", ",", "2", "3", "4", ",", "5", "6", "7", ".", "8", "9">>

\* C1: for every input holding both "," and ".", the result is the number
\* written by the input once the separator whose last occurrence comes later
\* is read as the decimal point and every occurrence of the other one is
\* deleted (null when what remains is no numeral); "1.234.567,89" and
\* "1,234,567.89" both give 1234567.89.
C1_LastSeparatorIsDecimal ==
    (Parsed /\ HasBothSeparators(pnValue)) =>
        /\ pnResult = NullIfNaN(StringToNumber(WrittenNumeral(pnValue)))
        /\ (pnValue \in {EuExample, UsExample} => pnResult = Num1234567p89)

C1_Witness ==
    /\ pnValue = EuExample
    /\ pnResult = Num1234567p89

\* the claim's shape: k in 1..3 digits, then n >= 1 groups of sep and 3 digits
IsGroupedShape(s, sep) ==
    \E k \in 1..3 : \E n \in 1..Len(s) :
        /\ Len(s) = k + 4 * n
        /\ \A i \in 1..Len(s) :
             IF i > k /\ (i - k) % 4 = 1 THEN s[i] = sep ELSE s[i] \in Digits

\* the integer written by the digits of s alone
IntegerOfDigits(s) ==
    [kind |-> "num", neg |-> FALSE,
     int |-> StripLeadingZeros(SelectSeq(s, LAMBDA c : c \in Digits)), frac |-> <<>>]

\* C2: a string of 1-3 digits followed by one or more groups of "," and three
\* digits, or of "." and three digits, parses to the integer left when the
\* separators are deleted, never to a decimal reading.
C2_ThousandsGrouping ==
    (Parsed /\ (IsGroupedShape(pnValue, ",") \/ IsGroupedShape(pnValue, "."))) =>
        /\ pnResult = IntegerOfDigits(pnValue)
        /\ pnResult.frac = <<>>
        /\ pnValue = <<"1", ",", "0", "0", "0">> => pnResult.int = <<"1", "0", "0", "0">>
        /\ pnValue = <<"1", "2", ".", "3", "4", "5">> => pnResult.int = <<"1", "2", "3", "4", "5">>

C2_Witness ==
    /\ pnValue = <<"1", ".", "2", "3", "4", ".", "5", "6", "7">>
    /\ pnResult = IntegerOfDigits(<<"1", "2", "3", "4", "5", "6", "7">>)

HasDigit(s) == \E i \in 1..Len(s) : s[i] \in Digits

IsBlankOrMinus(s) == Trim(s) = <<>> \/ Trim(s) = <<"-">>

SignedInfinity == {InfinityLiteral, <<"-">> \o InfinityLiteral, <<"+">> \o InfinityLiteral}

\* C3 as stated: parseNumber returns null only for an empty string, a lone
\* minus sign or a string without a digit character; every other string
\* yields a number.
C3_NullOnlyWithoutDigits ==
    (Parsed /\ pnResult = Null) => (IsBlankOrMinus(pnValue) \/ ~HasDigit(pnValue))

\* C3 as amended: parseNumber always returns null or a number (it never
\* throws and never returns NaN); an empty string, a lone minus sign and a
\* string without a digit character give null, the signed literal Infinity
\* apart; a string with a digit may give null too ("12abc", "1,2,3", "1.2.3").
C3_NullForBlankOrDigitless ==
    Parsed =>
        /\ pnResult.kind \in {"null", "num", "inf"}
        /\ IsBlankOrMinus(pnValue) => pnResult = Null
        /\ (~HasDigit(pnValue) /\ Trim(pnValue) \notin SignedInfinity) => pnResult = Null
        /\ pnResult.kind = "inf" => Trim(pnValue) \in SignedInfinity
        /\ pnValue \in { <<"1", "2", "a", "b", "c">>, <<"1", ",", "2", ",", "3">>,
                         <<"1", ".", "2", ".", "3">> } => pnResult = Null

C3_Witness ==
    /\ pnValue = <<"1", "2", "a", "b", "c">>
    /\ pnResult = Null

\* a string with "," and without ".", not of the grouping shape
IsCommaOnly(s) ==
    /\ Positions(s, ",") # {} /\ Positions(s, ".") = {}
    /\ ~IsGroupedShape(AfterOptionalMinus(s), ",")

\* an optional "-", one or more digits, a comma, one or more digits
IsCommaDecimalShape(s) ==
    LET u == AfterOptionalMinus(s)
    IN  \E c \in 2..(Len(u) - 1) :
            /\ u[c] = ","
            /\ \A i \in (1..Len(u)) \ {c} : u[i] \in Digits

\* the number written by s once its comma is read as the decimal point
CommaAsPoint(s) ==
    LET u == AfterOptionalMinus(s)
        c == CHOOSE i \in 1..Len(u) : u[i] = ","
    IN  Finite(u # s, SubSeq(u, 1, c - 1), SubSeq(u, c + 1, Len(u)))

Num(ip, fp) == [kind |-> "num", neg |-> FALSE, int |-> ip, frac |-> fp]

\* C24: for a trimmed string that holds "," but no "." and is not of the
\* exact-3-digit grouping shape: if it is an optional "-", one or more
\* digits, a single comma and one or more digits, parseNumber reads the comma
\* as the decimal point ("3,14" gives 3.14, "12,34" gives 12.34, "1234,5"
\* gives 1234.5); otherwise it returns what the direct numeric conversion of
\* the untouched string gives, null when that conversion fails.
C24_CommaDecimalOrFallback ==
    (Parsed /\ IsCommaOnly(Trim(pnValue))) =>
        /\ IF IsCommaDecimalShape(Trim(pnValue))
           THEN pnResult = CommaAsPoint(Trim(pnValue))
           ELSE pnResult = NullIfNaN(StringToNumber(Trim(pnValue)))
        /\ pnValue = <<"3", ",", "1", "4">> => pnResult = Num(<<"3">>, <<"1", "4">>)
        /\ pnValue = <<"1", "2", ",", "3", "4">> => pnResult = Num(<<"1", "2">>, <<"3", "4">>)
        /\ pnValue = <<"1", "2", "3", "4", ",", "5">> => pnResult = Num(<<"1", "2", "3", "4">>, <<"5">>)

\* a decimal comma after four digits has been read as 1234.5
C24_Witness ==
    /\ pnValue = <<"1", "2", "3", "4", ",", "5">>
    /\ pnResult = Num(<<"1", "2", "3", "4">>, <<"5">>)

(***************************************************************************)
(* parseNumber (engine/detector.ts, the regex-only variant of the second   *)
(* copy of the detector) and its three patterns.                           *)
(***************************************************************************)
\* ^-?\d{1,3}(group\d{3})*(decimal\d+)?$ with any number of leading digits
MatchesGroupedDecimalAnyLead(trimmed, group, decimal) ==
    LET u == AfterOptionalMinus(trimmed)
    IN  \E k \in 1..Len(u) : \E e \in k..Len(u) :
            /\ AllDigits(SubSeq(u, 1, k))
            /\ (e = k \/ MatchesGroups(SubSeq(u, k + 1, e), group))
            /\ \/ e = Len(u)
               \/ /\ e + 1 < Len(u)
                  /\ u[e + 1] = decimal
                  /\ AllDigits(SubSeq(u, e + 2, Len(u)))

\* ^-?\d{1,3}(group\d{3})*(decimal\d+)?$
MatchesGroupedDecimal(trimmed, group, decimal) ==
    LET u == AfterOptionalMinus(trimmed)
    IN  \E k \in 1..3 : \E e \in k..Len(u) :
            /\ AllDigits(SubSeq(u, 1, k))
            /\ (e = k \/ MatchesGroups(SubSeq(u, k + 1, e), group))
            /\ \/ e = Len(u)
               \/ /\ e + 1 < Len(u)
                  /\ u[e + 1] = decimal
                  /\ AllDigits(SubSeq(u, e + 2, Len(u)))

\* /^-?\d{1,3}(\.\d{3})*(,\d+)?$/
EU_NUMBER_PATTERN_AnyLead(trimmed) == MatchesGroupedDecimalAnyLead(trimmed, ".", ",")

EU_NUMBER_PATTERN(trimmed) == MatchesGroupedDecimal(trimmed, ".", ",")

\* /^-?\d{1,3}(,\d{3})*(\.\d+)?$/
US_NUMBER_PATTERN(trimmed) == MatchesGroupedDecimal(trimmed, ",", ".")

\* /^-?\d+(\.\d+)?$/
PLAIN_NUMBER_PATTERN(trimmed) ==
    LET u == AfterOptionalMinus(trimmed)
    IN  \E e \in 1..Len(u) :
            /\ AllDigits(SubSeq(u, 1, e))
            /\ \/ e = Len(u)
               \/ /\ e + 1 < Len(u)
                  /\ u[e + 1] = "."
                  /\ AllDigits(SubSeq(u, e + 2, Len(u)))

parseNumberByPatterns(value) ==
    LET trimmed == Trim(value)
    IN  IF IsEmptyToken(trimmed) THEN Null
        ELSE IF PLAIN_NUMBER_PATTERN(trimmed) THEN NullIfNaN(StringToNumber(trimmed))
        ELSE IF EU_NUMBER_PATTERN(trimmed)
             THEN NullIfNaN(StringToNumber(ReplaceFirst(RemoveAll(trimmed, "."), ",", ".")))
        ELSE IF US_NUMBER_PATTERN(trimmed)
             THEN NullIfNaN(StringToNumber(RemoveAll(trimmed, ",")))
        ELSE NullIfNaN(StringToNumber(trimmed))

\* both variants are called on the drawn string
InitVariants ==
    /\ pnValue \in Inputs /\ pnResult = Pending /\ pnByPatterns = Pending
    /\ dtValues = <<>> /\ dtResult = "pending"
    /\ vmDimensions = <<>> /\ vmMapping = <<>> /\ vmColumns = <<>>
    /\ vmResult = [isValid |-> TRUE, errors |-> <<>>, warnings |-> <<>>, done |-> FALSE]
    /\ TableIdle /\ InputIdle /\ MapDataIdle /\ FlowIdle /\ HeapIdle

\* a call of the regex-only parseNumber on the drawn string
ParseNumberByPatterns ==
    /\ pnByPatterns = Pending
    /\ pnByPatterns' = parseNumberByPatterns(pnValue)
    /\ UNCHANGED <<engineVars, tableVars, inputVars, mapDataVars, flowVars, heapVars>>

NextVariants == ParseNumber \/ ParseNumberByPatterns

SpecVariants == InitVariants /\ [][NextVariants]_vars

(***************************************************************************)
(* Claims about the two variants of parseNumber, checked under             *)
(* SpecVariants.                                                           *)
(***************************************************************************)
BothParsed == pnResult # Pending /\ pnByPatterns # Pending

\* the digits before the comma of a string of the comma-decimal shape
LeadingDigits(s) == IndexOf(AfterOptionalMinus(s), ",") - 1

\* C25 as stated: the two parseNumber variants of the source, the
\* last-separator-wins one and the regex-only one, return different results
\* on the non-standard groupings "12,34" and "1234,5".
C25_VariantsDifferOnBothExamples ==
    (BothParsed /\ pnValue \in {<<"1", "2", ",", "3", "4">>, <<"1", "2", "3", "4", ",", "5">>}) =>
        pnResult # pnByPatterns

\* C25 as amended: the two variants return different results on non-standard
\* groupings with more than three digits before a decimal comma, such as
\* "1234,5", which the last-separator-wins variant reads as 1234.5 and the
\* regex-only variant rejects (null); with one to three digits before the
\* comma, as in "12,34", both read the comma as the decimal point and agree.
C25_VariantsDifferBeyondThreeDigits ==
    (BothParsed /\ IsCommaOnly(Trim(pnValue)) /\ IsCommaDecimalShape(Trim(pnValue))) =>
        /\ pnResult = CommaAsPoint(Trim(pnValue))
        /\ IF LeadingDigits(Trim(pnValue)) > 3
           THEN pnByPatterns = Null
           ELSE pnByPatterns = pnResult
        /\ pnValue = <<"1", "2", "3", "4", ",", "5">> =>
              pnResult = Num(<<"1", "2", "3", "4">>, <<"5">>) /\ pnByPatterns = Null
        /\ pnValue = <<"1", "2", ",", "3", "4">> =>
              pnResult = Num(<<"1", "2">>, <<"3", "4">>) /\ pnByPatterns = pnResult

\* both variants have been called on "1234,5" and disagree
C25_Witness ==
    /\ pnValue = <<"1", "2", "3", "4", ",", "5">>
    /\ pnResult = Num(<<"1", "2", "3", "4">>, <<"5">>)
    /\ pnByPatterns = Null

(***************************************************************************)
(* detectSingleColumnType (engine/detector.ts).                            *)
(***************************************************************************)
\* most cells in a drawn sample
MaxSample == 5

UpperCase ==
    <<"A", "B", "C", "D", "E", "F", "G", "H", "I", "J", "K", "L", "M",
      "N", "O", "P", "Q", "R", "S", "T", "U", "V", "W", "X", "Y", "Z">>
LowerCase ==
    <<"a", "b", "c", "d", "e", "f", "g", "h", "i", "j", "k", "l", "m",
      "n", "o", "p", "q", "r", "s", "t", "u", "v", "w", "x", "y", "z">>

\* v.toLowerCase()
ToLowerCase(s) ==
    [i \in 1..Len(s) |->
        IF \E k \in 1..26 : UpperCase[k] = s[i]
        THEN LowerCase[CHOOSE k \in 1..26 : UpperCase[k] = s[i]]
        ELSE s[i]]

BOOLEAN_VALUES ==
    { <<"t", "r", "u", "e">>, <<"f", "a", "l", "s", "e">>, <<"y", "e", "s">>, <<"n", "o">>,
      <<"1">>, <<"0">>, <<"j", "a">>, <<"n", "e", "i", "n">>, <<"o", "u", "i">>,
      <<"n", "o", "n">> }

\* the five date shapes; "d" stands for \d, every other character for itself
DATE_PATTERNS ==
    << <<"d", "d", "d", "d", "-", "d", "d", "-", "d", "d">>,
       <<"d", "d", "/", "d", "d", "/", "d", "d", "d", "d">>,
       <<"d", "d", ".", "d", "d", ".", "d", "d", "d", "d">>,
       <<"d", "d", "-", "d", "d", "-", "d", "d", "d", "d">>,
       <<"d", "d", "d", "d", "/", "d", "d", "/", "d", "d">> >>

\* p.test(v) for an anchored pattern of fixed length
TestPattern(p, v) ==
    /\ Len(v) = Len(p)
    /\ \A i \in 1..Len(p) : IF p[i] = "d" THEN IsDigit(v[i]) ELSE v[i] = p[i]

\* BOOLEAN_VALUES.has(v.toLowerCase())
IsBooleanValue(v) == ToLowerCase(v) \in BOOLEAN_VALUES

\* DATE_PATTERNS.some((p) => p.test(v))
IsDateValue(v) == \E k \in 1..Len(DATE_PATTERNS) : TestPattern(DATE_PATTERNS[k], v)

\* parseNumber(v) !== null
IsNumberValue(v) == parseNumber(v) # Null

ClearsThresholdAtLeast(count, total) == 10 * count >= 8 * total

\* count / total > 0.8, in integers: the quotient of two integers up to 100 is
\* rounded to the double nearest to it, which exceeds the double 0.8 exactly
\* when the fraction exceeds 8/10
ClearsThreshold(count, total) == 10 * count > 8 * total

detectSingleColumnTypeNumberFirst(values) ==
    IF Len(values) = 0 THEN "string"
    ELSE LET stringValues == [i \in 1..Len(values) |-> Trim(values[i])]
             total == Len(stringValues)
         IN  IF ClearsThreshold(Len(SelectSeq(stringValues, IsNumberValue)), total) THEN "number"
             ELSE IF ClearsThreshold(Len(SelectSeq(stringValues, IsBooleanValue)), total) THEN "boolean"
             ELSE IF ClearsThreshold(Len(SelectSeq(stringValues, IsDateValue)), total) THEN "date"
             ELSE "string"

detectSingleColumnType(values) ==
    IF Len(values) = 0 THEN "string"
    ELSE LET stringValues == [i \in 1..Len(values) |-> Trim(values[i])]
             total == Len(stringValues)
         IN  IF ClearsThreshold(Len(SelectSeq(stringValues, IsBooleanValue)), total) THEN "boolean"
             ELSE IF ClearsThreshold(Len(SelectSeq(stringValues, IsDateValue)), total) THEN "date"
             ELSE IF ClearsThreshold(Len(SelectSeq(stringValues, IsNumberValue)), total) THEN "number"
             ELSE "string"

\* the non-empty cells a sampled column may hold
SampleCells ==
    { <<"1">>, <<"0">>, <<"Y", "e", "s">>, <<"4", "2">>, <<"a", "b", "c">>,
      <<"2", "0", "2", "4", "-", "0", "1", "-", "1", "5">> }

Samples == UNION {[1..n -> SampleCells] : n \in 0..MaxSample}

InitDetect ==
    /\ dtValues \in Samples /\ dtResult = "pending"
    /\ pnValue = <<>> /\ pnResult = Pending
    /\ vmDimensions = <<>> /\ vmMapping = <<>> /\ vmColumns = <<>>
    /\ vmResult = [isValid |-> TRUE, errors |-> <<>>, warnings |-> <<>>, done |-> FALSE]
    /\ TableIdle /\ InputIdle /\ ChartIdle

\* a call of detectSingleColumnType on the sampled values of one column
DetectSingleColumnType ==
    /\ dtResult = "pending"
    /\ dtResult' = detectSingleColumnType(dtValues)
    /\ UNCHANGED <<dtValues, pnValue, pnResult, vmDimensions, vmMapping, vmColumns, vmResult,
                 tableVars, inputVars, chartVars>>

NextDetect == DetectSingleColumnType

SpecDetect == InitDetect /\ [][NextDetect]_vars

(***************************************************************************)
(* Claims about detectSingleColumnType, checked under SpecDetect.          *)
(***************************************************************************)
Detected == dtResult # "pending"

SampleSize == Len(dtValues)

BoolMatches == Cardinality({i \in 1..Len(dtValues) : IsBooleanValue(Trim(dtValues[i]))})
DateMatches == Cardinality({i \in 1..Len(dtValues) : IsDateValue(Trim(dtValues[i]))})
NumberMatches == Cardinality({i \in 1..Len(dtValues) : IsNumberValue(Trim(dtValues[i]))})

\* at least 80%, exactly 80% included
AtLeast80(matches) == 5 * matches >= 4 * SampleSize

\* strictly more than 80%
MoreThan80(matches) == 5 * matches > 4 * SampleSize

\* C4 as stated: a check is cleared whenever at least 80% of the sampled
\* values match it, exactly 80% included, and the detector falls through
\* only below 80%.
C4_ClearsAtEightyPercent ==
    (Detected /\ SampleSize > 0) =>
        /\ AtLeast80(BoolMatches) => dtResult = "boolean"
        /\ (~AtLeast80(BoolMatches) /\ AtLeast80(DateMatches)) => dtResult = "date"
        /\ (~AtLeast80(BoolMatches) /\ ~AtLeast80(DateMatches) /\ AtLeast80(NumberMatches))
               => dtResult = "number"

\* C4 as amended: a check is cleared exactly when strictly more than 80% of
\* the sampled non-empty values match it; at exactly 80% (4 of 5) the
\* detector falls through to the next check.
C4_ClearsAboveEightyPercent ==
    (Detected /\ SampleSize > 0) =>
        /\ dtResult = "boolean" <=> MoreThan80(BoolMatches)
        /\ ~MoreThan80(BoolMatches) => (dtResult = "date" <=> MoreThan80(DateMatches))
        /\ (~MoreThan80(BoolMatches) /\ ~MoreThan80(DateMatches))
               => (dtResult = "number" <=> MoreThan80(NumberMatches))
        /\ (5 * BoolMatches = 4 * SampleSize) => dtResult # "boolean"
        /\ (5 * DateMatches = 4 * SampleSize) => dtResult # "date"

\* four of five values are boolean literals and the column is not boolean
C4_Witness ==
    /\ Detected
    /\ SampleSize = 5
    /\ BoolMatches = 4
    /\ dtResult # "boolean"

OnlyZeroAndOne == \A i \in 1..Len(dtValues) : dtValues[i] \in {<<"0">>, <<"1">>}

\* C5: the checks are consulted in the order boolean, date, number and the
\* first that clears the threshold decides, "string" when none does; a later
\* check is never consulted once an earlier one clears, so a sample made only
\* of "0" and "1" is boolean although each value parses as a number.
C5_FixedOrder ==
    Detected =>
        /\ dtResult \in {"boolean", "date", "number", "string"}
        /\ SampleSize = 0 => dtResult = "string"
        /\ (SampleSize > 0 /\ MoreThan80(BoolMatches)) => dtResult = "boolean"
        /\ dtResult = "date" => (SampleSize > 0 /\ ~MoreThan80(BoolMatches))
        /\ dtResult = "number" =>
               (SampleSize > 0 /\ ~MoreThan80(BoolMatches) /\ ~MoreThan80(DateMatches))
        /\ dtResult = "string" =>
               (SampleSize > 0 =>
                   /\ ~MoreThan80(BoolMatches)
                   /\ ~MoreThan80(DateMatches)
                   /\ ~MoreThan80(NumberMatches))
        /\ (SampleSize > 0 /\ OnlyZeroAndOne) =>
               (NumberMatches = SampleSize /\ dtResult = "boolean")

C5_Witness ==
    /\ dtValues = << <<"0">>, <<"1">>, <<"1">> >>
    /\ NumberMatches = 3
    /\ dtResult = "boolean"

(***************************************************************************)
(* validateMapping (engine/validator.ts).  A column name is a string; a    *)
(* mapping entry is undefined, a string or an array of strings.  A message *)
(* is kept as its kind and the column name it quotes.                      *)
(***************************************************************************)
\* most column names in an array entry of a drawn mapping
MaxNames == 2

\* columnChart.dimensions
columnChartDimensions ==
    << [id |-> "x", required |-> TRUE, acceptedTypes |-> {"string", "number", "date"},
        multiple |-> FALSE],
       [id |-> "y", required |-> TRUE, acceptedTypes |-> {"number"}, multiple |-> FALSE],
       [id |-> "color", required |-> FALSE, acceptedTypes |-> {"string"}, multiple |-> FALSE] >>

\* a dimension list that uses the other values of the DimensionDefinition flags
seriesDimensions ==
    << [id |-> "x", required |-> TRUE, acceptedTypes |-> {"string"}, multiple |-> TRUE],
       [id |-> "y", required |-> FALSE, acceptedTypes |-> {"number"}, multiple |-> FALSE] >>

DimensionLists == {columnChartDimensions, seriesDimensions}

\* the column metadata of the validateMapping tests
testColumns ==
    << [name |-> "Category", confirmedType |-> "string"],
       [name |-> "Value", confirmedType |-> "number"] >>

Undefined == [kind |-> "undefined", names |-> <<>>]
StringEntry(name) == [kind |-> "string", names |-> <<name>>]
ArrayEntry(names) == [kind |-> "array", names |-> names]

\* the names a drawn mapping refers to: the two columns and one that is no column
MappedNames == {"Category", "Value", "Ghost"}

MappingEntries ==
    {Undefined, StringEntry("")}
        \cup {StringEntry(n) : n \in MappedNames}
        \cup {ArrayEntry(a) : a \in UNION {[1..k -> MappedNames] : k \in 0..MaxNames}}

DimensionIds(dimensions) == {dimensions[i].id : i \in 1..Len(dimensions)}

\* !mapped : undefined and the empty string are falsy, an array never is
IsFalsy(mapped) ==
    mapped.kind = "undefined" \/ (mapped.kind = "string" /\ mapped.names = <<"">>)

\* Array.isArray(mapped)
IsArray(mapped) == mapped.kind = "array"

IsUnmappedIgnoringEmptyArray(mapped) == IsFalsy(mapped)

\* !mapped || (Array.isArray(mapped) && mapped.length === 0)
IsUnmapped(mapped) == IsFalsy(mapped) \/ (IsArray(mapped) /\ Len(mapped.names) = 0)

\* columns.find((c) => c.name === colName) is defined
HasColumn(columns, colName) == \E i \in 1..Len(columns) : columns[i].name = colName

\* columns.find((c) => c.name === colName) : the first column of that name
FindColumn(columns, colName) ==
    columns[CHOOSE i \in 1..Len(columns) :
                /\ columns[i].name = colName
                /\ \A j \in 1..(i - 1) : columns[j].name # colName]

Error(dimensionId, kind, colName) ==
    [dimensionId |-> dimensionId, message |-> [kind |-> kind, colName |-> colName]]

NoFindings == [errors |-> <<>>, warnings |-> <<>>]

TypeMismatchAsError(dim, colName) ==
    [errors |-> <<Error(dim.id, "type", colName)>>, warnings |-> <<>>]

\* the push of a type warning for a resolved column of a type not accepted
TypeMismatch(dim, colName) ==
    [errors |-> <<>>, warnings |-> <<Error(dim.id, "type", colName)>>]

\* the body of the loop over columnNames, for one column name
CheckColumn(dim, colName, columns) ==
    IF ~HasColumn(columns, colName)
    THEN [errors |-> <<Error(dim.id, "notFound", colName)>>, warnings |-> <<>>]
    ELSE IF FindColumn(columns, colName).confirmedType \notin dim.acceptedTypes
         THEN TypeMismatch(dim, colName)
         ELSE NoFindings

RECURSIVE CheckColumnsStopAtMissing(_, _, _)
CheckColumnsStopAtMissing(dim, columnNames, columns) ==
    IF columnNames = <<>> THEN NoFindings
    ELSE IF ~HasColumn(columns, Head(columnNames))
         THEN CheckColumn(dim, Head(columnNames), columns)
         ELSE LET first == CheckColumn(dim, Head(columnNames), columns)
                  rest == CheckColumnsStopAtMissing(dim, Tail(columnNames), columns)
              IN  [errors |-> first.errors \o rest.errors,
                   warnings |-> first.warnings \o rest.warnings]

\* for (const colName of columnNames) { ... }
RECURSIVE CheckColumns(_, _, _)
CheckColumns(dim, columnNames, columns) ==
    IF columnNames = <<>> THEN NoFindings
    ELSE LET first == CheckColumn(dim, Head(columnNames), columns)
             rest == CheckColumns(dim, Tail(columnNames), columns)
         IN  [errors |-> first.errors \o rest.errors,
              warnings |-> first.warnings \o rest.warnings]

TooManyColumnsFromOne(dim, mapped) ==
    ~dim.multiple /\ IsArray(mapped) /\ Len(mapped.names) >= 1

TooManyColumnsFromThree(dim, mapped) ==
    ~dim.multiple /\ IsArray(mapped) /\ Len(mapped.names) > 2

\* !dim.multiple && Array.isArray(mapped) && mapped.length > 1
TooManyColumns(dim, mapped) ==
    ~dim.multiple /\ IsArray(mapped) /\ Len(mapped.names) > 1

\* the body of the loop over dimensions, for one dimension
ValidateDimension(dim, mapped, columns) ==
    IF dim.required /\ IsUnmapped(mapped)
    THEN [errors |-> <<Error(dim.id, "required", "")>>, warnings |-> <<>>]
    ELSE IF IsFalsy(mapped) THEN NoFindings
    ELSE LET checked == CheckColumns(dim, mapped.names, columns)
         IN  [errors |-> checked.errors \o
                         (IF TooManyColumns(dim, mapped)
                          THEN <<Error(dim.id, "multiple", "")>> ELSE <<>>),
              warnings |-> checked.warnings]

\* mapping[dim.id]
Lookup(mapping, id) == IF id \in DOMAIN mapping THEN mapping[id] ELSE Undefined

\* for (const dim of dimensions) { ... }
RECURSIVE ValidateDimensions(_, _, _)
ValidateDimensions(dimensions, mapping, columns) ==
    IF dimensions = <<>> THEN NoFindings
    ELSE LET first == ValidateDimension(Head(dimensions), Lookup(mapping, Head(dimensions).id),
                                        columns)
             rest == ValidateDimensions(Tail(dimensions), mapping, columns)
         IN  [errors |-> first.errors \o rest.errors,
              warnings |-> first.warnings \o rest.warnings]

validateMapping(dimensions, mapping, columns) ==
    LET found == ValidateDimensions(dimensions, mapping, columns)
    IN  [isValid |-> Len(found.errors) = 0, errors |-> found.errors,
         warnings |-> found.warnings, done |-> TRUE]

NotValidated == [isValid |-> TRUE, errors |-> <<>>, warnings |-> <<>>, done |-> FALSE]

InitValidate ==
    /\ vmDimensions \in DimensionLists
    /\ vmMapping \in [DimensionIds(vmDimensions) -> MappingEntries]
    /\ vmColumns = testColumns
    /\ vmResult = NotValidated
    /\ pnValue = <<>> /\ pnResult = Pending
    /\ dtValues = <<>> /\ dtResult = "pending"
    /\ TableIdle /\ InputIdle /\ ChartIdle

\* a call of validateMapping on the drawn dimensions, mapping and columns
ValidateMapping ==
    /\ ~vmResult.done
    /\ vmResult' = validateMapping(vmDimensions, vmMapping, vmColumns)
    /\ UNCHANGED <<vmDimensions, vmMapping, vmColumns, pnValue, pnResult, dtValues, dtResult,
                 tableVars, inputVars, chartVars>>

NextValidate == ValidateMapping

SpecValidate == InitValidate /\ [][NextValidate]_vars

(***************************************************************************)
(* Claims about validateMapping, checked under SpecValidate.               *)
(***************************************************************************)
Validated == vmResult.done

Dims == {vmDimensions[i] : i \in 1..Len(vmDimensions)}

EntryOf(d) == IF d.id \in DOMAIN vmMapping THEN vmMapping[d.id] ELSE Undefined

ErrorsKeyed(id) == {i \in 1..Len(vmResult.errors) : vmResult.errors[i].dimensionId = id}

WarningsKeyed(id) == {i \in 1..Len(vmResult.warnings) : vmResult.warnings[i].dimensionId = id}

ErrorsOfKind(id, kind) == {i \in ErrorsKeyed(id) : vmResult.errors[i].message.kind = kind}

ColumnNames == {vmColumns[i].name : i \in 1..Len(vmColumns)}

TypeOf(name) == (CHOOSE c \in {vmColumns[i] : i \in 1..Len(vmColumns)} : c.name = name).confirmedType

\* absent, an empty string or an empty list
IsAbsentOrEmpty(e) == e.kind = "undefined" \/ e = StringEntry("") \/ e = ArrayEntry(<<>>)

\* C6: a required dimension whose entry is absent, an empty string or an
\* empty list gets exactly one error keyed by its id, the "required" one, and
\* nothing else is checked for it: no other error and no warning carries its id.
C6_RequiredUnmapped ==
    Validated =>
        \A d \in Dims :
            (d.required /\ IsAbsentOrEmpty(EntryOf(d))) =>
                /\ Cardinality(ErrorsKeyed(d.id)) = 1
                /\ Cardinality(ErrorsOfKind(d.id, "required")) = 1
                /\ WarningsKeyed(d.id) = {}

C6_Witness ==
    /\ Validated
    /\ vmDimensions = columnChartDimensions
    /\ vmMapping["x"] = ArrayEntry(<<>>)
    /\ vmMapping["y"] = StringEntry("Value")
    /\ vmResult.errors = <<Error("x", "required", "")>>

\* the positions of an entry that name a column of a type d does not accept
MismatchedPositions(d) ==
    {k \in 1..Len(EntryOf(d).names) :
        /\ EntryOf(d).names[k] \in ColumnNames
        /\ TypeOf(EntryOf(d).names[k]) \notin d.acceptedTypes}

\* the positions of an entry that name no column
MissingPositions(d) ==
    {k \in 1..Len(EntryOf(d).names) : EntryOf(d).names[k] \notin ColumnNames}

\* the dimension's entry is looked into: it is neither absent nor ""
IsMapped(d) == EntryOf(d).kind = "array" \/ (EntryOf(d).kind = "string" /\ EntryOf(d).names # <<"">>)

\* the dimension's columns are checked: it is mapped and past the required check
IsChecked(d) == IsMapped(d) /\ ~(d.required /\ IsAbsentOrEmpty(EntryOf(d)))

ListsTooMany(d) == ~d.multiple /\ EntryOf(d).kind = "array" /\ Len(EntryOf(d).names) > 1

\* C7: isValid is true exactly when the error list is empty; a resolved
\* column whose confirmedType the dimension does not accept adds a warning
\* keyed by the dimension and never an error, so a mapping whose only defects
\* are type mismatches is valid.
C7_WarningsNeverInvalidate ==
    Validated =>
        /\ vmResult.isValid <=> (vmResult.errors = <<>>)
        /\ \A d \in Dims :
              IsChecked(d) =>
                 /\ Cardinality(WarningsKeyed(d.id)) = Cardinality(MismatchedPositions(d))
                 /\ ErrorsOfKind(d.id, "type") = {}
                 /\ Cardinality(ErrorsKeyed(d.id)) =
                        Cardinality(MissingPositions(d)) + (IF ListsTooMany(d) THEN 1 ELSE 0)
        /\ (\A d \in Dims :
               /\ d.required => ~IsAbsentOrEmpty(EntryOf(d))
               /\ IsMapped(d) => (MissingPositions(d) = {} /\ ~ListsTooMany(d)))
              => vmResult.isValid

C7_Witness ==
    /\ Validated
    /\ vmDimensions = columnChartDimensions
    /\ vmMapping["x"] = StringEntry("Category")
    /\ vmMapping["y"] = StringEntry("Category")
    /\ vmResult.warnings = <<Error("y", "type", "Category")>>
    /\ vmResult.isValid

\* the entry is one column, as a string or a one-element list, that exists
\* and whose confirmedType the dimension accepts
IsOneAcceptedColumn(d) ==
    /\ IsMapped(d)
    /\ Len(EntryOf(d).names) = 1
    /\ EntryOf(d).names[1] \in ColumnNames
    /\ TypeOf(EntryOf(d).names[1]) \in d.acceptedTypes

RequiredOmitted(d) == d.required /\ EntryOf(d).kind = "undefined"

\* C8 as stated: whenever every required dimension is mapped to an existing
\* column of an accepted type the result is valid with zero errors; when a
\* required dimension is omitted the result is invalid with an error keyed
\* by that dimension.
C8_RequiredFilledIsValid ==
    Validated =>
        /\ (\A d \in Dims : d.required => IsOneAcceptedColumn(d))
              => (vmResult.isValid /\ vmResult.errors = <<>>)
        /\ \A d \in Dims : RequiredOmitted(d) => (~vmResult.isValid /\ ErrorsKeyed(d.id) # {})

\* C8 as amended: the result is valid with zero errors whenever every required
\* dimension is mapped to an existing column of an accepted type and no
\* optional dimension names a missing column or lists more than one column
\* while multiple is false; a required dimension that is omitted makes the
\* result invalid, with an error keyed by its id.
C8_AllFilledIsValid ==
    Validated =>
        /\ (\A d \in Dims :
               /\ d.required => IsOneAcceptedColumn(d)
               /\ (~d.required /\ IsMapped(d)) => (MissingPositions(d) = {} /\ ~ListsTooMany(d)))
              => (vmResult.isValid /\ vmResult.errors = <<>>)
        /\ \A d \in Dims : RequiredOmitted(d) => (~vmResult.isValid /\ ErrorsKeyed(d.id) # {})

C8_Witness ==
    /\ Validated
    /\ vmDimensions = columnChartDimensions
    /\ vmMapping["x"] = ArrayEntry(<<"Category">>)
    /\ vmMapping["y"] = StringEntry("Value")
    /\ vmMapping["color"] = Undefined
    /\ vmResult.isValid
    /\ vmResult.errors = <<>>

NotFoundErrors(id, name) ==
    {i \in ErrorsOfKind(id, "notFound") : vmResult.errors[i].message.colName = name}

TypeWarnings(id, name) ==
    {i \in WarningsKeyed(id) : vmResult.warnings[i].message.colName = name}

Occurrences(names, name) == {k \in 1..Len(names) : names[k] = name}

\* C9: for a mapped dimension every referenced name that is no column gives
\* an error keyed by the dimension, one per missing name, and the other names
\* of the same entry are still checked (a type mismatch among them still
\* gives its warning).
C9_MissingColumns ==
    Validated =>
        \A d \in Dims :
            IsChecked(d) =>
                \A n \in MappedNames \cup {""} :
                    IF n \notin ColumnNames
                    THEN Cardinality(NotFoundErrors(d.id, n)) =
                             Cardinality(Occurrences(EntryOf(d).names, n))
                    ELSE /\ NotFoundErrors(d.id, n) = {}
                         /\ Cardinality(TypeWarnings(d.id, n)) =
                               (IF TypeOf(n) \in d.acceptedTypes THEN 0
                                ELSE Cardinality(Occurrences(EntryOf(d).names, n)))

C9_Witness ==
    /\ Validated
    /\ vmDimensions = seriesDimensions
    /\ vmMapping["x"] = ArrayEntry(<<"Ghost", "Value">>)
    /\ vmResult.errors = <<Error("x", "notFound", "Ghost")>>
    /\ Error("x", "type", "Value") \in {vmResult.warnings[i] : i \in 1..Len(vmResult.warnings)}

\* C10: a dimension with multiple = false whose entry lists more than one
\* column gets an error keyed by it and the result is invalid, even when every
\* listed column exists and is of an accepted type; one column, as a string or
\* as a one-element list, never gets this error.
C10_SingleColumnOnly ==
    Validated =>
        \A d \in Dims :
            /\ (~d.multiple /\ EntryOf(d).kind = "array" /\ Len(EntryOf(d).names) > 1) =>
                   (Cardinality(ErrorsOfKind(d.id, "multiple")) = 1 /\ ~vmResult.isValid)
            /\ Len(EntryOf(d).names) = 1 => ErrorsOfKind(d.id, "multiple") = {}

C10_Witness ==
    /\ Validated
    /\ vmDimensions = columnChartDimensions
    /\ vmMapping["x"] = ArrayEntry(<<"Category", "Value">>)
    /\ vmMapping["y"] = StringEntry("Value")
    /\ vmMapping["color"] = Undefined
    /\ vmResult.errors = <<Error("x", "multiple", "")>>
    /\ vmResult.warnings = <<>>
    /\ ~vmResult.isValid

(***************************************************************************)
(* aggregate (engine/mapper.ts).  A number is kept here as an exact        *)
(* fraction in lowest terms, so that sums, means and medians are computed  *)
(* without rounding; the values drawn are integers and halves, whose sums  *)
(* a double holds exactly, and a quotient is the exact value the double    *)
(* division rounds.                                                        *)
(***************************************************************************)
\* most values in a drawn list of numbers
MaxValues == 4

EngineIdle ==
    /\ pnValue = <<>> /\ pnResult = Pending
    /\ dtValues = <<>> /\ dtResult = "pending"
    /\ vmDimensions = <<>> /\ vmMapping = <<>> /\ vmColumns = <<>>
    /\ vmResult = NotValidated

Abs(n) == IF n < 0 THEN -n ELSE n

\* the element of a set of one element; Only({F(x) : x \in {e}}) is F(e)
\* with e evaluated once
Only(S) == CHOOSE x \in S : TRUE

RECURSIVE Gcd(_, _)
Gcd(a, b) == IF b = 0 THEN a ELSE Gcd(b, a % b)

\* the number n / d, d # 0, in lowest terms with a positive denominator
Rat(n, d) ==
    LET g == Gcd(Abs(n), Abs(d))
        sgn == IF d < 0 THEN -1 ELSE 1
    IN  [num |-> sgn * (n \div g), den |-> sgn * (d \div g)]

RatInt(n) == [num |-> n, den |-> 1]

\* a + b
RatAdd(a, b) == Rat(a.num * b.den + b.num * a.den, a.den * b.den)

\* a / n for a positive integer n
RatDivInt(a, n) == Rat(a.num, a.den * n)

\* a < b, the sign of a - b in a comparator
RatLess(a, b) == a.num * b.den < b.num * a.den

\* the sum of values[lo..hi]; the halves are summed apart to keep the
\* evaluation shallow, which for exact numbers gives the sum from the left
RECURSIVE SumBetween(_, _, _)
SumBetween(values, lo, hi) ==
    IF lo > hi THEN RatInt(0)
    ELSE IF lo = hi THEN values[lo]
    ELSE LET mid == (lo + hi) \div 2
         IN  RatAdd(SumBetween(values, lo, mid), SumBetween(values, mid + 1, hi))

\* values.reduce((a, b) => a + b, 0)
SumOf(values) == SumBetween(values, 1, Len(values))

\* sorted: v put into the ascending list at its place, after its equals
RECURSIVE InsertSorted(_, _)
InsertSorted(sorted, v) ==
    IF sorted = <<>> THEN <<v>>
    ELSE IF RatLess(v, Head(sorted)) THEN <<v>> \o sorted
    ELSE <<Head(sorted)>> \o InsertSorted(Tail(sorted), v)

\* [...values].sort((a, b) => a - b) : a sorted copy, values itself is kept
RECURSIVE SortAscending(_)
SortAscending(values) ==
    IF values = <<>> THEN <<>>
    ELSE InsertSorted(SortAscending(SubSeq(values, 1, Len(values) - 1)), values[Len(values)])

MedianUpperMiddle(values) ==
    LET sorted == SortAscending(values)
        mid == Len(sorted) \div 2
    IN  sorted[mid + 1]

\* case "median": sorted[mid] for an odd length, the mean of sorted[mid - 1]
\* and sorted[mid] for an even one (indices from 0 in the code, from 1 here)
Median(values) ==
    LET sorted == SortAscending(values)
        mid == Len(sorted) \div 2
    IN  IF Len(sorted) % 2 # 0 THEN sorted[mid + 1]
        ELSE RatDivInt(RatAdd(sorted[mid], sorted[mid + 1]), 2)

\* Math.min(...values)
MinOf(values) ==
    CHOOSE v \in {values[i] : i \in 1..Len(values)} :
        \A i \in 1..Len(values) : ~RatLess(values[i], v)

\* Math.max(...values)
MaxOf(values) ==
    CHOOSE v \in {values[i] : i \in 1..Len(values)} :
        \A i \in 1..Len(values) : ~RatLess(v, values[i])

AggregationTypes == {"sum", "mean", "median", "count", "min", "max"}

aggregate(values, method) ==
    IF Len(values) = 0 THEN RatInt(0)
    ELSE CASE method = "sum" -> SumOf(values)
           [] method = "mean" -> RatDivInt(SumOf(values), Len(values))
           [] method = "median" -> Median(values)
           [] method = "count" -> RatInt(Len(values))
           [] method = "min" -> MinOf(values)
           [] method = "max" -> MaxOf(values)
           [] OTHER -> SumOf(values)

\* the numbers a drawn list holds
AggregateNumbers == {RatInt(-3), RatInt(1), RatInt(2), RatInt(5), Rat(1, 2)}

NotAggregated == [num |-> 0, den |-> 0]

InitAggregate ==
    /\ agValues \in UNION {[1..n -> AggregateNumbers] : n \in 0..MaxValues}
    /\ agMethod = "none"
    /\ agResult = NotAggregated
    /\ gaData = <<>> /\ gaMethod = "none" /\ gaResult = <<>>
    /\ dcData = <<>> /\ dcResult = <<>>
    /\ ptText = <<>> /\ ptResult = <<>>
    /\ EngineIdle /\ InputIdle /\ ChartIdle

\* a call of aggregate on the drawn list with one of the six methods
Aggregate ==
    /\ agMethod = "none"
    /\ \E method \in AggregationTypes :
          /\ agMethod' = method
          /\ agResult' = aggregate(agValues, method)
    /\ UNCHANGED <<agValues, gaData, gaMethod, gaResult, dcData, dcResult, ptText, ptResult,
                   engineVars, inputVars, chartVars>>

NextAggregate == Aggregate

SpecAggregate == InitAggregate /\ [][NextAggregate]_vars

(***************************************************************************)
(* Claims about aggregate, checked under SpecAggregate.                    *)
(***************************************************************************)
Aggregated == agMethod # "none"

AgIndices == 1..Len(agValues)

\* the total of the values at the positions of I, taken in any order
RECURSIVE TotalOver(_)
TotalOver(I) ==
    IF I = {} THEN RatInt(0)
    ELSE LET i == CHOOSE x \in I : TRUE
         IN  RatAdd(agValues[i], TotalOver(I \ {i}))

\* the k-th least of the values: fewer than k values lie below it and at
\* least k values are not above it
KthLeast(k) ==
    CHOOSE v \in {agValues[i] : i \in AgIndices} :
        /\ Cardinality({i \in AgIndices : RatLess(agValues[i], v)}) < k
        /\ Cardinality({i \in AgIndices : ~RatLess(v, agValues[i])}) >= k

\* C14: on a non-empty list aggregate returns the total for sum, the total
\* divided by the length for mean, the middle of the sorted values (the mean
\* of the two middle values for an even length) for median, the length for
\* count and the least and the greatest value for min and max; on an empty
\* list it returns 0 for every method.
C14_AggregateSemantics ==
    Aggregated =>
        LET n == Len(agValues)
        IN  IF n = 0 THEN agResult = RatInt(0)
            ELSE /\ agMethod = "sum" => agResult = TotalOver(AgIndices)
                 /\ agMethod = "mean" =>
                        agResult.num * n * TotalOver(AgIndices).den
                            = TotalOver(AgIndices).num * agResult.den
                 /\ agMethod = "median" =>
                        IF n % 2 = 1 THEN agResult = KthLeast((n + 1) \div 2)
                        ELSE 2 * agResult.num * KthLeast(n \div 2).den * KthLeast(n \div 2 + 1).den
                               = agResult.den *
                                   (KthLeast(n \div 2).num * KthLeast(n \div 2 + 1).den
                                    + KthLeast(n \div 2 + 1).num * KthLeast(n \div 2).den)
                 /\ agMethod = "count" => agResult = RatInt(n)
                 /\ agMethod = "min" =>
                        /\ \E i \in AgIndices : agValues[i] = agResult
                        /\ \A i \in AgIndices : ~RatLess(agValues[i], agResult)
                 /\ agMethod = "max" =>
                        /\ \E i \in AgIndices : agValues[i] = agResult
                        /\ \A i \in AgIndices : ~RatLess(agResult, agValues[i])

\* the median of an even number of values lies between the two middle ones
C14_Witness ==
    /\ agValues = <<RatInt(5), RatInt(1), RatInt(2), RatInt(-3)>>
    /\ agMethod = "median"
    /\ agResult = Rat(3, 2)

(***************************************************************************)
(* groupAndAggregate (engine/mapper.ts).  A cell of a DataRow is a string, *)
(* a number or null; a row that lacks a column yields undefined for it.    *)
(***************************************************************************)
\* most rows in a drawn table
MaxRows == 3

NullCell == [kind |-> "null", str |-> <<>>, num |-> RatInt(0)]
UndefinedCell == [kind |-> "undefined", str |-> <<>>, num |-> RatInt(0)]
StrCell(s) == [kind |-> "string", str |-> s, num |-> RatInt(0)]
NumCell(n) == [kind |-> "number", str |-> <<>>, num |-> n]

\* row[name]
Cell(row, name) == IF name \in DOMAIN row THEN row[name] ELSE UndefinedCell

\* the number null of (number | null), and the two infinities
NoNumber == [num |-> 0, den |-> 0]
InfiniteNumber(neg) == [num |-> IF neg THEN -1 ELSE 1, den |-> 0]

DigitValue(c) == CHOOSE n \in 0..9 : <<"0", "1", "2", "3", "4", "5", "6", "7", "8", "9">>[n + 1] = c

RECURSIVE DigitsToInt(_)
DigitsToInt(d) ==
    IF d = <<>> THEN 0 ELSE 10 * DigitsToInt(SubSeq(d, 1, Len(d) - 1)) + DigitValue(d[Len(d)])

RECURSIVE Pow10(_)
Pow10(n) == IF n = 0 THEN 1 ELSE 10 * Pow10(n - 1)

\* the value of a result of parseNumber as a fraction
ToRat(n) ==
    LET Value(r) ==
            CASE r.kind = "num" ->
                     Only({Rat(IF r.neg THEN -m ELSE m, Pow10(Len(r.frac))) :
                              m \in {DigitsToInt(r.int) * Pow10(Len(r.frac)) + DigitsToInt(r.frac)}})
              [] r.kind = "inf" -> InfiniteNumber(r.neg)
              [] OTHER -> NoNumber
    IN  Only({Value(r) : r \in {n}})

RECURSIVE NatToString(_)
NatToString(n) ==
    IF n < 10 THEN <<<<"0", "1", "2", "3", "4", "5", "6", "7", "8", "9">>[n + 1]>>
    ELSE NatToString(n \div 10) \o NatToString(n % 10)

\* String(n) of a whole number n
NumberToString(n) ==
    IF n.num < 0 THEN <<"-">> \o NatToString(-n.num) ELSE NatToString(n.num)

\* String(cell ?? "")
StringOrEmpty(cell) ==
    CASE cell.kind = "string" -> cell.str
      [] cell.kind = "number" -> NumberToString(cell.num)
      [] OTHER -> <<>>

ResolveValueNullAsZero(rawValue) ==
    IF rawValue.kind = "number" THEN rawValue.num
    ELSE IF parseNumber(StringOrEmpty(rawValue)) = Null THEN RatInt(0)
    ELSE ToRat(parseNumber(StringOrEmpty(rawValue)))

\* typeof rawValue === "number" ? rawValue : parseNumber(String(rawValue ?? ""))
ResolveValue(rawValue) ==
    IF rawValue.kind = "number" THEN rawValue.num
    ELSE ToRat(parseNumber(StringOrEmpty(rawValue)))

\* groups.has(category)
GroupsHas(groups, category) == \E i \in 1..Len(groups) : groups[i].category = category

GroupsPushAlwaysNew(groups, category, value) ==
    Append(groups, [category |-> category, values |-> <<value>>])

GroupsPushNewFirst(groups, category, value) ==
    IF ~GroupsHas(groups, category)
    THEN <<[category |-> category, values |-> <<value>>]>> \o groups
    ELSE [i \in 1..Len(groups) |->
             IF groups[i].category = category
             THEN [groups[i] EXCEPT !.values = Append(@, value)]
             ELSE groups[i]]

\* if (!groups.has(category)) groups.set(category, []);
\* groups.get(category)!.push(value): a Map keeps its keys in insertion order
GroupsPush(groups, category, value) ==
    IF ~GroupsHas(groups, category)
    THEN Append(groups, [category |-> category, values |-> <<value>>])
    ELSE [i \in 1..Len(groups) |->
             IF groups[i].category = category
             THEN [groups[i] EXCEPT !.values = Append(@, value)]
             ELSE groups[i]]

RECURSIVE GroupRowsSetBeforeCheck(_, _, _, _)
GroupRowsSetBeforeCheck(data, n, categoryColumn, valueColumn) ==
    IF n = 0 THEN <<>>
    ELSE LET groups == GroupRowsSetBeforeCheck(data, n - 1, categoryColumn, valueColumn)
             row == data[n]
             category == StringOrEmpty(Cell(row, categoryColumn))
             value == ResolveValue(Cell(row, valueColumn))
             withKey == IF GroupsHas(groups, category) THEN groups
                        ELSE Append(groups, [category |-> category, values |-> <<>>])
         IN  IF value = NoNumber THEN withKey
             ELSE GroupsPush(withKey, category, value)

\* the Map after the loop over the first n rows
RECURSIVE GroupRows(_, _, _, _)
GroupRows(data, n, categoryColumn, valueColumn) ==
    IF n = 0 THEN <<>>
    ELSE LET groups == GroupRows(data, n - 1, categoryColumn, valueColumn)
             row == data[n]
             category == StringOrEmpty(Cell(row, categoryColumn))
             value == ResolveValue(Cell(row, valueColumn))
         IN  IF value = NoNumber THEN groups
             ELSE GroupsPush(groups, category, value)

groupAndAggregate(data, categoryColumn, valueColumn, aggregation) ==
    LET groups == GroupRows(data, Len(data), categoryColumn, valueColumn)
    IN  [i \in 1..Len(groups) |->
            [category |-> groups[i].category,
             value |-> aggregate(groups[i].values, aggregation)]]

North == <<"N", "o", "r", "t", "h">>
South == <<"S", "o", "u", "t", "h">>
East == <<"E", "a", "s", "t">>

RegionSales(region, sales) == [Region |-> region, Sales |-> sales]

\* the rows a drawn table is made of: categories that are strings, numbers,
\* null, empty or missing, and values that parse, do not parse, are blank,
\* null, missing or already numbers
RowTypes ==
    { RegionSales(StrCell(North), StrCell(<<"1", "0", "0">>)),
      RegionSales(StrCell(South), StrCell(<<"2", "0", "0">>)),
      RegionSales(StrCell(North), StrCell(<<"a", "b", "c">>)),
      RegionSales(StrCell(South), StrCell(<<>>)),
      RegionSales(StrCell(East), NullCell),
      RegionSales(StrCell(East), StrCell(<<"3", "0", "0">>)),
      RegionSales(StrCell(<<"7">>), NumCell(RatInt(7))),
      RegionSales(NumCell(RatInt(7)), StrCell(<<"1", ",", "5">>)),
      RegionSales(NullCell, StrCell(<<"1", "5", "0">>)),
      RegionSales(StrCell(<<>>), StrCell(<<"2", "5", "0">>)),
      [Sales |-> NumCell(RatInt(-3))],
      [Region |-> StrCell(North)] }

\* the rows of the engine test
testRows ==
    << RegionSales(StrCell(North), StrCell(<<"1", "0", "0">>)),
       RegionSales(StrCell(South), StrCell(<<"2", "0", "0">>)),
       RegionSales(StrCell(North), StrCell(<<"1", "5", "0">>)),
       RegionSales(StrCell(South), StrCell(<<"2", "5", "0">>)),
       RegionSales(StrCell(East), StrCell(<<"3", "0", "0">>)) >>

Tables == UNION {[1..n -> RowTypes] : n \in 0..MaxRows} \cup {testRows}

InitGroup ==
    /\ gaData \in Tables
    /\ gaMethod = "none"
    /\ gaResult = <<>>
    /\ agValues = <<>> /\ agMethod = "none" /\ agResult = <<>>
    /\ dcData = <<>> /\ dcResult = <<>>
    /\ ptText = <<>> /\ ptResult = <<>>
    /\ EngineIdle /\ InputIdle /\ ChartIdle

\* a call of groupAndAggregate on the drawn table, grouping by Region and
\* aggregating Sales with one of the six methods
GroupAndAggregate ==
    /\ gaMethod = "none"
    /\ \E aggregation \in AggregationTypes :
          /\ gaMethod' = aggregation
          /\ gaResult' = groupAndAggregate(gaData, "Region", "Sales", aggregation)
    /\ UNCHANGED <<gaData, agValues, agMethod, agResult, dcData, dcResult, ptText, ptResult,
                   engineVars, inputVars, chartVars>>

NextGroup == GroupAndAggregate

SpecGroup == InitGroup /\ [][NextGroup]_vars

(***************************************************************************)
(* Claims about groupAndAggregate, checked under SpecGroup.                *)
(***************************************************************************)
GroupsReturned == gaMethod # "none"

GaRows == 1..Len(gaData)

\* the category label of row r
LabelOf(r) ==
    LET c == Cell(gaData[r], "Region")
    IN  IF c.kind \in {"null", "undefined"} THEN <<>>
        ELSE IF c.kind = "number" THEN NumberToString(c.num)
        ELSE c.str

\* row r has a value cell that is a number or that parseNumber resolves
Contributes(r) ==
    LET c == Cell(gaData[r], "Sales")
    IN  \/ c.kind = "number"
        \/ c.kind = "string" /\ parseNumber(c.str) # Null

\* the number row r contributes
ContributionOf(r) ==
    LET c == Cell(gaData[r], "Sales")
    IN  IF c.kind = "number" THEN c.num ELSE ToRat(parseNumber(c.str))

OutputLabels == {gaResult[i].category : i \in 1..Len(gaResult)}

NoLabelTwice ==
    \A i, j \in 1..Len(gaResult) : gaResult[i].category = gaResult[j].category => i = j

\* C11 as stated: one group per distinct category of the rows, no label
\* twice and every category that occurs in some row in the output.
C11_OneGroupPerOccurringCategory ==
    GroupsReturned =>
        /\ NoLabelTwice
        /\ OutputLabels = {LabelOf(r) : r \in GaRows}

\* C11: groupAndAggregate returns exactly one group per distinct category
\* (the cell coerced to its string form, null or missing taken as the empty
\* string) that occurs in some row whose value resolves: no label appears
\* twice, every such category appears and no other does.  A category all of
\* whose rows have a value that does not resolve has no group.
C11_OneGroupPerContributingCategory ==
    GroupsReturned =>
        /\ NoLabelTwice
        /\ OutputLabels = {LabelOf(r) : r \in {x \in GaRows : Contributes(x)}}

\* a number 7 and a string "7" fall into one group, and a category whose
\* only row does not resolve has none
C11_Witness ==
    /\ GroupsReturned
    /\ gaData = << RegionSales(StrCell(<<"7">>), NumCell(RatInt(7))),
                   RegionSales(NumCell(RatInt(7)), StrCell(<<"1", ",", "5">>)),
                   RegionSales(StrCell(North), StrCell(<<"a", "b", "c">>)) >>
    /\ Len(gaResult) = 1
    /\ gaResult[1].category = <<"7">>

\* the first row with the label, among all rows and among contributing rows
FirstRow(label) == CHOOSE r \in GaRows :
    LabelOf(r) = label /\ \A q \in GaRows : LabelOf(q) = label => r <= q
FirstContributingRow(label) == CHOOSE r \in GaRows :
    /\ LabelOf(r) = label /\ Contributes(r)
    /\ \A q \in GaRows : LabelOf(q) = label /\ Contributes(q) => r <= q

testSums ==
    << [category |-> North, value |-> RatInt(250)],
       [category |-> South, value |-> RatInt(450)],
       [category |-> East, value |-> RatInt(300)] >>

\* C12 as stated: of two groups of the output, the one whose category has
\* the earlier first row comes first.
C12_FirstSeenOrder ==
    GroupsReturned =>
        \A i, j \in 1..Len(gaResult) :
            FirstRow(gaResult[i].category) < FirstRow(gaResult[j].category) => i < j

\* C12: the groups keep the order in which the categories are first seen in
\* a row whose value resolves: of two groups, the one whose category has the
\* earlier first contributing row comes first (North, South, East with the
\* sums 250, 450, 300 for the example).
C12_FirstContributingOrder ==
    GroupsReturned =>
        /\ \A i, j \in 1..Len(gaResult) :
              FirstContributingRow(gaResult[i].category)
                  < FirstContributingRow(gaResult[j].category) => i < j
        /\ gaData = testRows /\ gaMethod = "sum" => gaResult = testSums

C12_Witness ==
    /\ gaData = testRows
    /\ gaMethod = "sum"
    /\ gaResult = testSums

\* the numbers the rows with the label contribute, in row order
RECURSIVE ContributionsUpTo(_, _)
ContributionsUpTo(label, n) ==
    IF n = 0 THEN <<>>
    ELSE IF LabelOf(n) = label /\ Contributes(n)
         THEN Append(ContributionsUpTo(label, n - 1), ContributionOf(n))
         ELSE ContributionsUpTo(label, n - 1)

\* C13: a row whose value cell is null, empty or not parseable contributes
\* nothing to its category: the value of a group is the aggregate of the
\* numbers of the rows of its category whose value resolves, so such a row
\* is not counted by count and is no 0 in sum, mean, median, min or max; a
\* value that is already a number is used as it is.
C13_UnresolvedValuesContributeNothing ==
    GroupsReturned =>
        \A i \in 1..Len(gaResult) :
            LET numbers == ContributionsUpTo(gaResult[i].category, Len(gaData))
            IN  /\ numbers # <<>>
                /\ gaMethod = "count" => gaResult[i].value = RatInt(Len(numbers))
                /\ gaResult[i].value = aggregate(numbers, gaMethod)

\* North has the rows 100 and abc, and its least value is 100, not 0
C13_Witness ==
    /\ gaMethod = "min"
    /\ gaData = << RegionSales(StrCell(North), StrCell(<<"1", "0", "0">>)),
                   RegionSales(StrCell(North), StrCell(<<"a", "b", "c">>)),
                   [Sales |-> NumCell(RatInt(-3))] >>
    /\ gaResult = << [category |-> North, value |-> RatInt(100)],
                     [category |-> <<>>, value |-> RatInt(-3)] >>

\* the groups of the output with the label
GroupsLabelled(label) == {i \in 1..Len(gaResult) : gaResult[i].category = label}

\* C26: groupAndAggregate partitions the contributing rows: every row whose
\* value resolves to a number contributes to exactly one group, the one of
\* its category, so with the method count the group values sum to the number
\* of rows with a resolvable value; and every emitted group has at least one
\* contributing value, so aggregate is never applied to an empty list.
C26_ContributingRowsPartitioned ==
    GroupsReturned =>
        /\ \A r \in GaRows : Contributes(r) => Cardinality(GroupsLabelled(LabelOf(r))) = 1
        /\ \A i \in 1..Len(gaResult) :
              /\ \E r \in GaRows : Contributes(r) /\ LabelOf(r) = gaResult[i].category
              /\ gaMethod = "count" => RatLess(RatInt(0), gaResult[i].value)
        /\ gaMethod = "count" =>
              SumOf([i \in 1..Len(gaResult) |-> gaResult[i].value])
                  = RatInt(Cardinality({r \in GaRows : Contributes(r)}))
        /\ \A i \in 1..Len(gaResult) :
              GroupRows(gaData, Len(gaData), "Region", "Sales")[i].values # <<>>

\* three rows, two of them with a value that resolves, counted in two groups
C26_Witness ==
    /\ gaMethod = "count"
    /\ gaData = << RegionSales(StrCell(South), StrCell(<<"2", "0", "0">>)),
                   RegionSales(StrCell(East), NullCell),
                   RegionSales(StrCell(East), StrCell(<<"3", "0", "0">>)) >>
    /\ gaResult = << [category |-> South, value |-> RatInt(1)],
                     [category |-> East, value |-> RatInt(1)] >>

(***************************************************************************)
(* detectColumnTypes (engine/detector.ts).                                 *)
(***************************************************************************)
SAMPLE_SIZE == 100

\* most rows drawn before the run of equal rows that fills the sample
MaxHead == 2

\* v == null || v === ""
IsBlankCell(v) == v.kind \in {"null", "undefined"} \/ (v.kind = "string" /\ v.str = <<>>)

IsFilledCell(v) == ~IsBlankCell(v)

SampleOfWholeData(data) == data

\* data.slice(0, SAMPLE_SIZE)
SampleOf(data) ==
    SubSeq(data, 1, IF Len(data) < SAMPLE_SIZE THEN Len(data) ELSE SAMPLE_SIZE)

\* rows.map((row) => row[name])
ColumnCells(rows, name) == [i \in 1..Len(rows) |-> Cell(rows[i], name)]

IsNumber(n) == n # NoNumber

\* allValues.map((v) => parseNumber(String(v ?? ""))).filter((n) => n !== null)
ParsedNumbers(allValues) ==
    SelectSeq([i \in 1..Len(allValues) |-> ToRat(parseNumber(StringOrEmpty(allValues[i])))],
              IsNumber)

NoStats == [min |-> NoNumber, max |-> NoNumber, mean |-> NoNumber]

NumberStatsUnparsedAsZero(detectedType, allValues) ==
    IF detectedType = "number" /\ ParsedNumbers(allValues) # <<>>
    THEN LET nums == [i \in 1..Len(allValues) |->
                         IF parseNumber(StringOrEmpty(allValues[i])) = Null THEN RatInt(0)
                         ELSE ToRat(parseNumber(StringOrEmpty(allValues[i])))]
         IN  [min |-> MinOf(nums), max |-> MaxOf(nums),
              mean |-> RatDivInt(SumOf(nums), Len(nums))]
    ELSE NoStats

\* the optional min, max and mean of a column; NoNumber where the field is
\* not set
NumberStats(detectedType, allValues) ==
    LET StatsOf(nums) ==
            IF Len(nums) > 0
            THEN [min |-> MinOf(nums), max |-> MaxOf(nums),
                  mean |-> RatDivInt(SumOf(nums), Len(nums))]
            ELSE NoStats
    IN  IF detectedType = "number"
        THEN Only({StatsOf(nums) : nums \in {ParsedNumbers(allValues)}})
        ELSE NoStats

\* the ColumnMeta of the column called name
ColumnMetaOf(data, name) ==
    LET MetaWith(detectedType, values, allValues, stats) ==
            [name |-> name,
             detectedType |-> detectedType,
             confirmedType |-> detectedType,
             uniqueValues |-> Cardinality({allValues[i] :
                                  i \in {j \in 1..Len(allValues) : IsFilledCell(allValues[j])}}),
             nullCount |-> Len(SelectSeq(allValues, IsBlankCell)),
             sampleValues |-> SubSeq(values, 1, IF Len(values) < 5 THEN Len(values) ELSE 5),
             min |-> stats.min, max |-> stats.max, mean |-> stats.mean]
        MetaTyped(detectedType, values, allValues) ==
            MetaWith(detectedType, values, allValues, NumberStats(detectedType, allValues))
        MetaSampled(values, allValues) ==
            MetaTyped(detectSingleColumnType([i \in 1..Len(values) |-> StringOrEmpty(values[i])]),
                  values, allValues)
    IN  MetaSampled(SelectSeq(ColumnCells(SampleOf(data), name), IsFilledCell),
                ColumnCells(data, name))

detectColumnTypes(data, headers) ==
    [h \in 1..Len(headers) |-> ColumnMetaOf(data, headers[h])]

\* the cells of column A: a whole number, a decimal with a comma, a word,
\* the empty string and null
ColumnCellTypes ==
    {StrCell(<<"7">>), StrCell(<<"1", ",", "5">>), StrCell(<<"a", "b", "c">>), StrCell(<<>>), NullCell}

RowOfA(cell) == [A |-> cell]

\* n rows that hold the cell
Run(cell, n) == [i \in 1..n |-> RowOfA(cell)]

\* the last row of a table, if any
LastRows == {<<>>} \cup {<<RowOfA(c)>> : c \in ColumnCellTypes}

\* a table is a few drawn rows, then a run of equal rows that is empty or
\* reaches to the end of the sample, then at most one drawn row, which falls
\* in or after the sample
ColumnTables ==
    { head \o Run(pad, n) \o last :
        head \in UNION {[1..k -> {RowOfA(c) : c \in ColumnCellTypes}] : k \in 0..MaxHead},
        pad \in {StrCell(<<>>), StrCell(<<"7">>)},
        n \in {0, SAMPLE_SIZE - 2, SAMPLE_SIZE - 1},
        last \in LastRows }

\* column A of the rows and a header B that no row has a cell for
testHeaders == <<"A", "B">>

InitColumns ==
    /\ dcData \in ColumnTables
    /\ dcResult = <<>>
    /\ agValues = <<>> /\ agMethod = "none" /\ agResult = <<>>
    /\ gaData = <<>> /\ gaMethod = "none" /\ gaResult = <<>>
    /\ ptText = <<>> /\ ptResult = <<>>
    /\ EngineIdle /\ InputIdle /\ ChartIdle

\* a call of detectColumnTypes on the drawn table
DetectColumnTypes ==
    /\ dcResult = <<>>
    /\ dcResult' = detectColumnTypes(dcData, testHeaders)
    /\ UNCHANGED <<dcData, agValues, agMethod, agResult, gaData, gaMethod, gaResult,
                   ptText, ptResult, engineVars, inputVars, chartVars>>

NextColumns == DetectColumnTypes

SpecColumns == InitColumns /\ [][NextColumns]_vars

(***************************************************************************)
(* Claims about detectColumnTypes, checked under SpecColumns.              *)
(***************************************************************************)
ColumnsDetected == dcResult # <<>>

DcRows == 1..Len(dcData)

\* parseNumber resolves the cell of the column in row r
RowParses(name, r) ==
    LET c == Cell(dcData[r], name)
    IN  c.kind = "string" /\ parseNumber(c.str) # Null

ParsingRows(name) == {r \in DcRows : RowParses(name, r)}

ParsedAt(name, r) == ToRat(parseNumber(Cell(dcData[r], name).str))

\* the total of the parsed values of the rows lo..hi
RECURSIVE ParsedTotalBetween(_, _, _)
ParsedTotalBetween(name, lo, hi) ==
    IF lo > hi THEN RatInt(0)
    ELSE IF lo = hi
         THEN IF RowParses(name, lo) THEN ParsedAt(name, lo) ELSE RatInt(0)
    ELSE LET mid == (lo + hi) \div 2
         IN  RatAdd(ParsedTotalBetween(name, lo, mid), ParsedTotalBetween(name, mid + 1, hi))

ParsedTotal(name) == ParsedTotalBetween(name, 1, Len(dcData))

\* C15: min, max and mean of a column are present only when its detectedType
\* is number and at least one of its cells parses; when present they are the
\* least, the greatest and the arithmetic mean of the parsed values over all
\* rows of the dataset, with empty and unparseable cells left out rather
\* than counted as zero.
C15_NumberStatsOverAllRows ==
    ColumnsDetected =>
        \A h \in 1..Len(dcResult) :
            LET meta == dcResult[h]
                R == ParsingRows(meta.name)
                present == meta.min # NoNumber
            IN  /\ present <=> (meta.detectedType = "number" /\ R # {})
                /\ present <=> meta.max # NoNumber
                /\ present <=> meta.mean # NoNumber
                /\ present =>
                      /\ \E r \in R : ParsedAt(meta.name, r) = meta.min
                      /\ \A r \in R : ~RatLess(ParsedAt(meta.name, r), meta.min)
                      /\ \E r \in R : ParsedAt(meta.name, r) = meta.max
                      /\ \A r \in R : ~RatLess(meta.max, ParsedAt(meta.name, r))
                      /\ meta.mean.num * Cardinality(R) * ParsedTotal(meta.name).den
                             = ParsedTotal(meta.name).num * meta.mean.den

\* the least value 1,5 stands in row 101, after the sample, and the word in
\* row 1 is left out
C15_Witness ==
    /\ ColumnsDetected
    /\ dcData = <<RowOfA(StrCell(<<"a", "b", "c">>))>> \o Run(StrCell(<<"7">>), SAMPLE_SIZE - 1)
                   \o <<RowOfA(StrCell(<<"1", ",", "5">>))>>
    /\ dcResult[1].detectedType = "number"
    /\ dcResult[1].min = Rat(3, 2)
    /\ dcResult[1].max = RatInt(7)
    /\ dcResult[1].mean = Rat(1389, 200)

\* the filled cells of the column among the first SAMPLE_SIZE rows
FilledSampleRows(name) ==
    {r \in DcRows : r <= SAMPLE_SIZE /\ IsFilledCell(Cell(dcData[r], name))}

DetectedTypes(metas) == [h \in 1..Len(metas) |-> metas[h].detectedType]

\* the table with everything after row SAMPLE_SIZE replaced by the rows
WithRowsAfterSample(rows) == SubSeq(dcData, 1, SAMPLE_SIZE) \o rows

\* the cells of the column in the rows of R, in row order, as strings
StringsOfRows(name, R) ==
    LET picked == SelectSeq([r \in DcRows |-> IF r \in R THEN <<Cell(dcData[r], name).str>> ELSE <<>>],
                            LAMBDA x : x # <<>>)
    IN  [i \in 1..Len(picked) |-> picked[i][1]]

\* C16: detectedType rests only on the non-null, non-empty cells among the
\* first 100 rows: a column with no such cell there is a string column
\* whatever later rows hold, blank cells do not count against the match
\* ratio, and changing the rows after the 100th changes no detectedType.
C16_TypeFromSampleOnly ==
    ColumnsDetected =>
        /\ \A h \in 1..Len(dcResult) :
              /\ FilledSampleRows(dcResult[h].name) = {} => dcResult[h].detectedType = "string"
              /\ dcResult[h].detectedType =
                     detectSingleColumnType(
                         StringsOfRows(dcResult[h].name, FilledSampleRows(dcResult[h].name)))
        /\ Len(dcData) > SAMPLE_SIZE =>
              \A rows \in LastRows :
                  DetectedTypes(detectColumnTypes(WithRowsAfterSample(rows), testHeaders))
                      = DetectedTypes(dcResult)

\* 100 blank rows and a number in row 101: a string column without statistics
C16_Witness ==
    /\ ColumnsDetected
    /\ dcData = Run(StrCell(<<>>), SAMPLE_SIZE) \o <<RowOfA(StrCell(<<"7">>))>>
    /\ dcResult[1].detectedType = "string"
    /\ dcResult[1].nullCount = SAMPLE_SIZE
    /\ dcResult[1].min = NoNumber

(***************************************************************************)
(* parseText (engine/parser.ts).  Papa.parse is the PapaParse library, at  *)
(* the version range ^5.4.0 of package.json; it is modelled from the       *)
(* library's documented behaviour for text without quotes and without      *)
(* carriage returns, with the options parseText passes: header,            *)
(* skipEmptyLines "greedy", no dynamic typing, transformHeader.  The       *)
(* header lines drawn have distinct names, as the renaming of duplicate    *)
(* header names differs between the versions of the range.                 *)
(***************************************************************************)
\* most lines below the header line in a drawn text
MaxLines == 2

\* s.split(sep) for a separator of one character
RECURSIVE Split(_, _)
Split(s, sep) ==
    IF ~Includes(s, sep) THEN <<s>>
    ELSE <<SubSeq(s, 1, IndexOf(s, sep) - 1)>> \o Split(SubSeq(s, IndexOf(s, sep) + 1, Len(s)), sep)

\* parts.join(sep)
RECURSIVE Join(_, _)
Join(parts, sep) ==
    IF parts = <<>> THEN <<>>
    ELSE IF Len(parts) = 1 THEN parts[1]
    ELSE parts[1] \o sep \o Join(Tail(parts), sep)

Least(a, b) == IF a < b THEN a ELSE b

\* the delimiters PapaParse tries in turn (the record and unit separator
\* characters, tried last, occur in no drawn text)
DelimitersToGuess == <<",", "\t", "|", ";">>

\* the rows of the fast path of the parser: input.split(newline), each
\* line split at the delimiter
PapaRows(input, delim) ==
    LET lines == Split(input, "\n")
    IN  [i \in 1..Len(lines) |-> Split(lines[i], delim)]

\* an empty line under skipEmptyLines "greedy": row.join("").trim() === ""
TestEmptyLine(row) == Trim(Join(row, <<>>)) = <<>>

IsDataLine(row) == ~TestEmptyLine(row)

\* sum of |fieldCount - fieldCountPrevRow| over the rows that are not empty
RECURSIVE FieldCountDelta(_)
FieldCountDelta(rows) ==
    IF Len(rows) < 2 THEN 0
    ELSE Abs(Len(rows[Len(rows)]) - Len(rows[Len(rows) - 1]))
             + FieldCountDelta(SubSeq(rows, 1, Len(rows) - 1))

RECURSIVE TotalFields(_)
TotalFields(rows) == IF rows = <<>> THEN 0 ELSE Len(Head(rows)) + TotalFields(Tail(rows))

NoGuess == [delim |-> "", delta |-> 0, total |-> 0, rows |-> 0]

\* guessDelimiter after the first n candidates: a candidate is taken when
\* its delta is not above the best delta, its average field count (total
\* over rows, not a number without rows) is above the best one and above 1.99
RECURSIVE GuessAmong(_, _)
GuessAmong(input, n) ==
    LET Preview(all) == SubSeq(all, 1, Least(Len(all), 10))
        Pick(best, delim, rows) ==
            IF /\ Len(rows) > 0
               /\ best.delim = "" \/ FieldCountDelta(rows) <= best.delta
               /\ best.delim = "" \/ TotalFields(rows) * best.rows > best.total * Len(rows)
               /\ 100 * TotalFields(rows) > 199 * Len(rows)
            THEN [delim |-> delim, delta |-> FieldCountDelta(rows),
                  total |-> TotalFields(rows), rows |-> Len(rows)]
            ELSE best
    IN  IF n = 0 THEN NoGuess
        ELSE Only({Pick(best, DelimitersToGuess[n], rows) :
                      best \in {GuessAmong(input, n - 1)},
                      rows \in {SelectSeq(Preview(PapaRows(input, DelimitersToGuess[n])),
                                          IsDataLine)}})

\* the delimiter guessed, "" when none is
GuessDelimiter(input) == GuessAmong(input, Len(DelimitersToGuess)).delim

transformHeaderRaw(header) == header

\* transformHeader: (header) => header.trim()
transformHeader(header) == Trim(header)

\* a cell that holds the fields of a row beyond the header fields
ArrayCell(items) == [kind |-> "array", str |-> items, num |-> RatInt(0)]

ParsedExtra == <<"__parsed_extra">>

\* the object of a row: the fields under the header names, fields beyond
\* them collected under __parsed_extra, missing fields left out
RowObject(rowSource, fields) ==
    LET n == Least(Len(rowSource), Len(fields))
        named == [name \in {fields[j] : j \in 1..n} |->
                     StrCell(rowSource[CHOOSE j \in 1..n :
                                 fields[j] = name /\ \A k \in (j + 1)..n : fields[k] # name])]
    IN  IF Len(rowSource) > Len(fields)
        THEN [name \in DOMAIN named \cup {ParsedExtra} |->
                 IF name = ParsedExtra
                 THEN ArrayCell(SubSeq(rowSource, Len(fields) + 1, Len(rowSource)))
                 ELSE named[name]]
        ELSE named

\* an entry of result.errors; row is -1 where the library sets none
PapaError(code, row) == [code |-> code, row |-> row]

\* the FieldMismatch errors of the rows 1..n, numbered from 0
RECURSIVE FieldMismatches(_, _, _)
FieldMismatches(body, fields, n) ==
    IF n = 0 THEN <<>>
    ELSE FieldMismatches(body, fields, n - 1) \o
         (IF Len(body[n]) > Len(fields) THEN <<PapaError("TooManyFields", n - 1)>>
          ELSE IF Len(body[n]) < Len(fields) THEN <<PapaError("TooFewFields", n - 1)>>
          ELSE <<>>)

\* Papa.parse(input, {header: true, skipEmptyLines: "greedy", ...}): the
\* delimiter is guessed, a comma when none is; the lines that are not empty
\* are kept; the first of them gives the fields, the others the rows
PapaParse(input) ==
    LET PapaResult(guess, fields, body) ==
            [data |-> [i \in 1..Len(body) |-> RowObject(body[i], fields)],
             errors |-> (IF guess = "" THEN <<PapaError("UndetectableDelimiter", -1)>> ELSE <<>>)
                            \o FieldMismatches(body, fields, Len(body)),
             fields |-> fields]
        PapaKept(guess, kept) ==
            IF kept = <<>> THEN PapaResult(guess, <<>>, <<>>)
            ELSE PapaResult(guess, [j \in 1..Len(kept[1]) |-> transformHeader(kept[1][j])], Tail(kept))
        PapaGuessed(guess) ==
            Only({PapaKept(guess, kept) :
                     kept \in {SelectSeq(PapaRows(input, IF guess = "" THEN "," ELSE guess),
                                         IsDataLine)}})
    IN  Only({PapaGuessed(guess) : guess \in {GuessDelimiter(input)}})

\* `Row ${e.row}: ${e.message}`
RowMessage(e) == [text |-> "Row", row |-> e.row, message |-> e.code]

EmptyInput == [text |-> "Empty input", row |-> -1, message |-> ""]

TrimTextNone(text) == text

\* text.trim()
TrimText(text) == Trim(text)

parseText(text) ==
    LET TextFailed(errors) ==
            [data |-> <<>>, columns |-> <<>>, rawHeaders |-> <<>>, rowCount |-> 0,
             errors |-> errors]
        TextReturned(result, errors) ==
            IF Len(result.errors) > 0 /\ Len(result.data) = 0
            THEN TextFailed(errors)
            ELSE [data |-> result.data,
                  columns |-> detectColumnTypes(result.data, result.fields),
                  rawHeaders |-> result.fields,
                  rowCount |-> Len(result.data),
                  errors |-> errors]
        TextParsedBy(result) ==
            TextReturned(result, [i \in 1..Len(result.errors) |-> RowMessage(result.errors[i])])
        TextTrimmed(trimmed) ==
            IF trimmed = <<>> THEN TextFailed(<<EmptyInput>>)
            ELSE Only({TextParsedBy(result) : result \in {PapaParse(trimmed)}})
    IN  Only({TextTrimmed(trimmed) : trimmed \in {TrimText(text)}})

\* the texts of the engine test
testCsv == <<"N", "a", "m", "e", ",", "V", "a", "l", "u", "e", "\n", "A", "l", "p", "h", "a", ",", "1", "0", "0", "\n", "B", "e", "t", "a", ",", "2", "0", "0", "\n", "G", "a", "m", "m", "a", ",", "3", "0", "0">>
testTsv == <<"N", "a", "m", "e", "\t", "V", "a", "l", "u", "e", "\n", "A", "l", "p", "h", "a", "\t", "1", "0", "0", "\n", "B", "e", "t", "a", "\t", "2", "0", "0">>
testSemicolon == <<"N", "a", "m", "e", ";", "V", "a", "l", "u", "e", "\n", "A", "l", "p", "h", "a", ";", "1", "0", "0", "\n", "B", "e", "t", "a", ";", "2", "0", "0">>

\* header lines, with distinct names
HeaderLines ==
    { <<"a", ",", "b">>, <<"a", " ", ",", " ", "b">>, <<"a", ";", "b">>, <<"a", "\t", "b">>, <<"a">> }

\* lines below the header: blank, white space, delimited by comma, semicolon
\* or tab, a single field, a field too many, delimiters only, padded cells
BodyLines ==
    { <<>>, <<" ">>, <<"x", ",", "1">>, <<"y", ";", "2">>, <<"z", "\t", "3">>, <<"w">>, <<"x", ",", "1", ",", "2">>, <<",">>, <<"x", ",", " ", "1", " ">> }

\* white space around a text
Margins == { <<<<>>, <<>>>>, <<<<" ">>, <<"\n", " ">>>> }

Texts ==
    { m[1] \o Join(<<h>> \o body, <<"\n">>) \o m[2] :
        h \in HeaderLines,
        body \in UNION {[1..n -> BodyLines] : n \in 0..MaxLines},
        m \in Margins }
    \cup { <<>>, <<" ">>, <<"\n">>, <<" ", "\n", "\t">>, testCsv, testTsv, testSemicolon }

NotParsed == [data |-> <<>>, columns |-> <<>>, rawHeaders |-> <<>>, rowCount |-> -1, errors |-> <<>>]

InitText ==
    /\ ptText \in Texts
    /\ ptResult = NotParsed
    /\ agValues = <<>> /\ agMethod = "none" /\ agResult = <<>>
    /\ gaData = <<>> /\ gaMethod = "none" /\ gaResult = <<>>
    /\ dcData = <<>> /\ dcResult = <<>>
    /\ EngineIdle /\ InputIdle /\ ChartIdle

\* a call of parseText on the drawn text
ParseText ==
    /\ ptResult = NotParsed
    /\ ptResult' = parseText(ptText)
    /\ UNCHANGED <<ptText, agValues, agMethod, agResult, gaData, gaMethod, gaResult,
                   dcData, dcResult, engineVars, inputVars, chartVars>>

NextText == ParseText

SpecText == InitText /\ [][NextText]_vars

(***************************************************************************)
(* Claims about parseText, checked under SpecText.                         *)
(***************************************************************************)
TextParsed == ptResult.rowCount >= 0

IsBlankText(text) == \A i \in 1..Len(text) : text[i] \in {" ", "\t", "\n"}

NoTable(r) == r.rowCount = 0 /\ r.data = <<>> /\ r.columns = <<>> /\ r.rawHeaders = <<>>

\* C17: on input that is empty after trimming (the empty string or white
\* space only) parseText returns rowCount 0, no rows, no columns, no headers
\* and a non-empty error list that holds the message Empty input.
C17_EmptyInput ==
    TextParsed /\ IsBlankText(ptText) =>
        /\ NoTable(ptResult)
        /\ ptResult.errors # <<>>
        /\ \E i \in 1..Len(ptResult.errors) : ptResult.errors[i].text = "Empty input"

C17_Witness ==
    /\ ptText = <<" ", "\n", "\t">>
    /\ NoTable(ptResult)
    /\ ptResult.errors = <<EmptyInput>>

\* the lines of the text without its surrounding white space
TextLines == Split(Trim(ptText), "\n")

\* the line holds a character that is neither white space nor the delimiter
HasContent(line, d) == \E i \in 1..Len(line) : line[i] \notin {" ", "\t", d}

\* the positions of the lines below the first that hold content, in order
ContentLines(d) ==
    SelectSeq([i \in 1..(Len(TextLines) - 1) |-> i + 1], LAMBDA i : HasContent(TextLines[i], d))

TrimmedFields(line, d) == [j \in 1..Len(Split(line, d)) |-> Trim(Split(line, d)[j])]

\* the result is the table read with delimiter d: the headers are the
\* trimmed fields of the first line, the rows are the later lines that hold
\* content, and every cell is the raw text of its field
ReadsAsTable(d) ==
    LET headers == TrimmedFields(TextLines[1], d)
        at == ContentLines(d)
    IN  /\ ptResult.rawHeaders = headers
        /\ Len(ptResult.data) = Len(at)
        /\ \A i \in 1..Len(at) :
              LET fields == Split(TextLines[at[i]], d)
              IN  \A j \in 1..Len(headers) :
                     IF j <= Len(fields)
                     THEN /\ headers[j] \in DOMAIN ptResult.data[i]
                          /\ ptResult.data[i][headers[j]] = StrCell(fields[j])
                     ELSE headers[j] \notin DOMAIN ptResult.data[i]

\* every line that holds content has the same number of fields, two or
\* more, under d, and no other delimiter occurs in the text
DelimitedBy(d) ==
    /\ \A i \in 1..Len(TextLines) :
          HasContent(TextLines[i], d) =>
              /\ Len(Split(TextLines[i], d)) = Len(Split(TextLines[1], d))
              /\ Len(Split(TextLines[i], d)) >= 2
    /\ \A i \in 1..Len(ptText) : ptText[i] \notin ({",", "\t", ";"} \ {d})

\* the parse failed as a whole: no table and at least one error
ParseFailed == NoTable(ptResult) /\ ptResult.errors # <<>>

\* C18: parseText takes the first line as headers, each trimmed of
\* surrounding white space, skips blank lines and leaves every cell the raw
\* string of its field, for comma-, tab- and semicolon-delimited input
\* alike; rowCount is always the number of returned rows; the CSV example
\* gives rowCount 3, headers Name, Value and first row Name Alpha, Value
\* 100.  The first part is about a parse that returns a table; a parse that
\* fails as a whole returns no headers.
C18_HeadersRowsAndRawCells ==
    TextParsed /\ ~IsBlankText(ptText) =>
        /\ ptResult.rowCount = Len(ptResult.data)
        /\ ~ParseFailed => \E d \in {",", "\t", ";"} : ReadsAsTable(d)
        /\ \A d \in {",", "\t", ";"} :
              DelimitedBy(d) => ReadsAsTable(d) /\ ptResult.errors = <<>>
        /\ ptText = testCsv =>
              /\ ptResult.rowCount = 3
              /\ ptResult.rawHeaders = <<<<"N", "a", "m", "e">>, <<"V", "a", "l", "u", "e">>>>
              /\ ptResult.data[1] =
                     (<<"N", "a", "m", "e">> :> StrCell(<<"A", "l", "p", "h", "a">>) @@ <<"V", "a", "l", "u", "e">> :> StrCell(<<"1", "0", "0">>))
        /\ ptText = testTsv =>
              ptResult.rowCount = 2 /\ ptResult.rawHeaders = <<<<"N", "a", "m", "e">>, <<"V", "a", "l", "u", "e">>>>
        /\ ptText = testSemicolon => ptResult.rowCount = 2

\* a header line with padded names, a blank line and a row with a padded
\* cell; the white space at the end of the text is trimmed with the text
C18_Witness ==
    /\ ptText = <<"a", " ", ",", " ", "b", "\n", "\n", "x", ",", " ", "1", " ">>
    /\ ptResult.rowCount = 1
    /\ ptResult.rawHeaders = <<<<"a">>, <<"b">>>>
    /\ ptResult.data[1] = (<<"a">> :> StrCell(<<"x">>) @@ <<"b">> :> StrCell(<<" ", "1">>))
    /\ ptResult.errors = <<>>

(***************************************************************************)
(* The chart templates (charts/column-chart, charts/bar-chart) and the     *)
(* chart registry (charts/registry.ts).  The data points mapData returns   *)
(* are records of a category, a value and, with a colour column, a series. *)
(***************************************************************************)
\* most rows in a table handed to mapData
MaxPoints == 2

\* barChart.dimensions
barChartDimensions ==
    << [id |-> "y", required |-> TRUE, acceptedTypes |-> {"string", "number", "date"},
        multiple |-> FALSE],
       [id |-> "x", required |-> TRUE, acceptedTypes |-> {"number"}, multiple |-> FALSE],
       [id |-> "color", required |-> FALSE, acceptedTypes |-> {"string"}, multiple |-> FALSE] >>

\* mapping.x as string: the column name of a string entry (array entries are
\* never set by the Mapping step and are not drawn)
ColumnName(mapped) == mapped.names[1]

\* typeof row[yCol] === "number" ? row[yCol] : parseNumber(String(row[yCol] ?? "")) ?? 0
ValueOrZero(rawValue) ==
    LET Zero(value) == IF value = NoNumber THEN RatInt(0) ELSE value
    IN  Only({Zero(value) : value \in {ResolveValue(rawValue)}})

\* data.map((row) => ({category, series, value})).filter((d) => d.category !== "")
SeriesPoints(data, categoryColumn, valueColumn, colorColumn) ==
    SelectSeq([i \in 1..Len(data) |->
                  [category |-> StringOrEmpty(Cell(data[i], categoryColumn)),
                   series |-> StringOrEmpty(Cell(data[i], colorColumn)),
                   value |-> ValueOrZero(Cell(data[i], valueColumn))]],
              LAMBDA d : d.category # <<>>)

\* the body the two mapData share, with the dimension of the categories and
\* the dimension of the values
MapDataBy(data, mapping, categoryDim, valueDim) ==
    IF IsFalsy(Lookup(mapping, categoryDim)) \/ IsFalsy(Lookup(mapping, valueDim)) THEN <<>>
    ELSE IF ~IsFalsy(Lookup(mapping, "color"))
         THEN SeriesPoints(data, ColumnName(Lookup(mapping, categoryDim)),
                           ColumnName(Lookup(mapping, valueDim)),
                           ColumnName(Lookup(mapping, "color")))
         ELSE groupAndAggregate(data, ColumnName(Lookup(mapping, categoryDim)),
                                ColumnName(Lookup(mapping, valueDim)), "sum")

\* columnChart.mapData(data, mapping, _options)
columnChartMapData(data, mapping, options) == MapDataBy(data, mapping, "x", "y")

\* barChart.mapData(data, mapping, _options)
barChartMapData(data, mapping, options) == MapDataBy(data, mapping, "y", "x")

\* the templates by id; only columnChart is registered in the registry
ChartDimensions(chartId) ==
    IF chartId = "bar-chart" THEN barChartDimensions ELSE columnChartDimensions

ChartMapData(chartId, data, mapping, options) ==
    IF chartId = "bar-chart" THEN barChartMapData(data, mapping, options)
    ELSE columnChartMapData(data, mapping, options)

\* chartRegistry.getAll(): the ids of the registered charts
chartRegistry == <<"column-chart">>

\* chartRegistry.getCompatible(columns), as the set of the ids
getCompatible(columns) ==
    {chartRegistry[c] : c \in {k \in 1..Len(chartRegistry) :
        \A d \in 1..Len(ChartDimensions(chartRegistry[k])) :
            ChartDimensions(chartRegistry[k])[d].required =>
                \E type \in ChartDimensions(chartRegistry[k])[d].acceptedTypes :
                    \E i \in 1..Len(columns) : columns[i].confirmedType = type}}

Series(name) == <<name>>

ChartRow(region, sales, series) == [Region |-> region, Sales |-> sales, Series |-> series]

\* the rows of a drawn table: a value that parses, one that does not, an
\* empty one, null, a number, and a row without category
ChartRowTypes ==
    { ChartRow(StrCell(North), StrCell(<<"1", "0", "0">>), StrCell(Series("s"))),
      ChartRow(StrCell(North), StrCell(<<"a", "b", "c">>), StrCell(Series("s"))),
      ChartRow(StrCell(South), StrCell(<<>>), StrCell(Series("t"))),
      ChartRow(StrCell(South), NullCell, StrCell(Series("s"))),
      ChartRow(StrCell(South), NumCell(RatInt(7)), NullCell),
      ChartRow(NullCell, StrCell(<<"2", "0", "0">>), StrCell(Series("t"))) }

ChartTables == UNION {[1..n -> ChartRowTypes] : n \in 0..MaxPoints}

\* the mappings drawn: each axis unmapped, empty or one of the two columns,
\* the colour unmapped, empty or the series column
ChartMappings ==
    { ("x" :> x @@ "y" :> y @@ "color" :> c) :
        x \in {Undefined, StringEntry("Region"), StringEntry("Sales")},
        y \in {Undefined, StringEntry(""), StringEntry("Region"), StringEntry("Sales")},
        c \in {Undefined, StringEntry(""), StringEntry("Series")} }

NotMapped == [done |-> FALSE, points |-> <<>>]

InitMapData ==
    /\ cmChart \in {"column-chart", "bar-chart"}
    /\ cmData \in ChartTables
    /\ cmMapping \in ChartMappings
    /\ cmResult = NotMapped
    /\ pnByPatterns = <<>> /\ FlowIdle /\ HeapIdle
    /\ EngineIdle /\ TableIdle /\ InputIdle

\* a call of the chart's mapData on the drawn table and mapping
MapData ==
    /\ ~cmResult.done
    /\ cmResult' = [done |-> TRUE, points |-> ChartMapData(cmChart, cmData, cmMapping, <<>>)]
    /\ UNCHANGED <<cmChart, cmData, cmMapping, pnByPatterns, flowVars, heapVars,
                   engineVars, tableVars, inputVars>>

NextMapData == MapData

SpecMapData == InitMapData /\ [][NextMapData]_vars

(***************************************************************************)
(* Claims about the charts' mapData, checked under SpecMapData.            *)
(***************************************************************************)
\* the dimensions of the categories and of the values of the drawn chart
CategoryDim == IF cmChart = "bar-chart" THEN "y" ELSE "x"
ValueDim == IF cmChart = "bar-chart" THEN "x" ELSE "y"

DimMapped(dim) == cmMapping[dim].kind = "string" /\ cmMapping[dim].names # <<"">>

\* row r has a value cell that is a number or that parseNumber resolves
ValueResolves(r) ==
    LET c == Cell(cmData[r], cmMapping[ValueDim].names[1])
    IN  \/ c.kind = "number"
        \/ c.kind = "string" /\ parseNumber(c.str) # Null

\* the rows mapData keeps according to the claim
KeptRows == {r \in 1..Len(cmData) : ValueResolves(r)}

\* C30: the column and bar chart mapData treat unparseable values the same
\* way with and without a colour column mapped: a row whose value cell is
\* null, empty or not parseable by parseNumber is dropped and never appears
\* in the mapped data as a data point of value 0; every data point has the
\* category of a row whose value resolves, and with a colour column there
\* are no more data points than such rows.
C30_UnparseableRowsDropped ==
    (cmResult.done /\ DimMapped(CategoryDim) /\ DimMapped(ValueDim)) =>
        /\ \A i \in 1..Len(cmResult.points) :
              \E r \in KeptRows :
                  StringOrEmpty(Cell(cmData[r], cmMapping[CategoryDim].names[1]))
                      = cmResult.points[i].category
        /\ DimMapped("color") => Len(cmResult.points) <= Cardinality(KeptRows)

(***************************************************************************)
(* parseFile, parseExcel (engine/parser.ts), the store (app/store) and the *)
(* handlers of DataInput.  A file is its name, the text it holds (for a    *)
(* spreadsheet, the CSV its first sheet converts to) and the step of its   *)
(* reading that fails, if any.  A null of the store is the empty sequence, *)
(* a value v the sequence <<v>>.                                           *)
(***************************************************************************)
\* most uploads in flight at a time
MaxUploads == 2

None == <<>>
Some(v) == <<v>>

\* file.name.split(".").pop()?.toLowerCase()
Extension(name) == ToLowerCase(Split(name, ".")[Len(Split(name, "."))])

\* the steps of parseExcel that can throw: the dynamic import, reading the
\* buffer, reading the workbook, converting the sheet; "thrown value" is a
\* throw of something that is no Error
ExcelFailures == {"import", "arrayBuffer", "read", "sheet_to_csv", "thrown value"}

\* `Failed to parse Excel file: ${error instanceof Error ? error.message : "Unknown error"}`
ExcelError(failure) ==
    [text |-> "Failed to parse Excel file", row |-> -1,
     message |-> IF failure = "thrown value" THEN "Unknown error" ELSE failure]

parseExcelKeepRows(file) ==
    IF file.fails \in ExcelFailures
    THEN [parseText(file.text) EXCEPT !.errors = <<ExcelError(file.fails)>>]
    ELSE parseText(file.text)

parseExcel(file) ==
    IF file.fails \in ExcelFailures
    THEN [data |-> <<>>, columns |-> <<>>, rawHeaders |-> <<>>, rowCount |-> 0,
          errors |-> <<ExcelError(file.fails)>>]
    ELSE parseText(file.text)

Resolved(result) == [settled |-> "resolved", result |-> result]
Rejected == [settled |-> "rejected", result |-> NotParsed]

\* the promise parseFile returns, once settled; file.text() may reject, and
\* nothing in parseFile catches that
parseFile(file) ==
    IF Extension(file.name) \in {<<"x", "l", "s", "x">>, <<"x", "l", "s">>}
    THEN Resolved(parseExcel(file))
    ELSE IF file.fails = "text" THEN Rejected
    ELSE Resolved(parseText(file.text))

initialState ==
    [currentStep |-> 1, maxReachedStep |-> 1,
     rawData |-> None, parsedData |-> None, columns |-> None,
     dataSource |-> None, fileName |-> None,
     selectedChartId |-> None, mapping |-> <<>>, mappedData |-> None]

Greatest(a, b) == IF a > b THEN a ELSE b

goToStep(state, step) ==
    [state EXCEPT !.currentStep = step,
                  !.maxReachedStep = Greatest(state.maxReachedStep, step)]

\* setData that keeps the steps reached
setDataKeepReach(state, raw, parsed, columns, source, fileName) ==
    [state EXCEPT !.rawData = Some(raw), !.parsedData = Some(parsed),
                  !.columns = Some(columns), !.dataSource = Some(source),
                  !.fileName = fileName,
                  !.currentStep = 2,
                  !.maxReachedStep = Greatest(state.maxReachedStep, 2)]

\* fileName ?? null: fileName is None or Some(name) already
setData(state, raw, parsed, columns, source, fileName) ==
    [state EXCEPT !.rawData = Some(raw), !.parsedData = Some(parsed),
                  !.columns = Some(columns), !.dataSource = Some(source),
                  !.fileName = fileName,
                  !.currentStep = 2, !.maxReachedStep = 2]

\* clearData that keeps the steps reached
clearDataKeepReach(state) ==
    [state EXCEPT !.rawData = None, !.parsedData = None, !.columns = None,
                  !.dataSource = None, !.fileName = None,
                  !.selectedChartId = None, !.mapping = <<>>, !.mappedData = None,
                  !.currentStep = 1]

clearData(state) ==
    [state EXCEPT !.rawData = None, !.parsedData = None, !.columns = None,
                  !.dataSource = None, !.fileName = None,
                  !.selectedChartId = None, !.mapping = <<>>, !.mappedData = None,
                  !.currentStep = 1, !.maxReachedStep = 1]

selectChart(state, chartId) ==
    [state EXCEPT !.selectedChartId = Some(chartId), !.mapping = <<>>,
                  !.mappedData = None,
                  !.currentStep = 3,
                  !.maxReachedStep = Greatest(state.maxReachedStep, 3)]

\* { ...state.mapping, [dimensionId]: columnNames }
setMapping(state, dimensionId, columnNames) ==
    [state EXCEPT !.mapping = (dimensionId :> columnNames) @@ state.mapping]

clearMapping(state, dimensionId) ==
    [state EXCEPT !.mapping = [d \in (DOMAIN state.mapping) \ {dimensionId} |-> state.mapping[d]],
                  !.mappedData = None]

setMappedData(state, data) == [state EXCEPT !.mappedData = Some(data)]

\* set(initialState)
reset(state) == initialState

\* what a handler does with a parse result: the errors it hands to
\* setParseErrors, and the store after it
AcceptZeroRows(state, result, noData, raw, source, fileName) ==
    [errors |-> result.errors,
     store |-> setData(state, raw, result.data, result.columns, source, fileName)]

Accept(state, result, noData, raw, source, fileName) ==
    IF Len(result.data) = 0
    THEN [errors |-> IF Len(result.errors) # 0 THEN result.errors ELSE <<noData>>,
          store |-> state]
    ELSE [errors |-> result.errors,
          store |-> setData(state, raw, result.data, result.columns, source, fileName)]

NoDataFound == [text |-> "No data found", row |-> -1, message |-> ""]
NoDataFoundInFile == [text |-> "No data found in file", row |-> -1, message |-> ""]

\* Object.values(row).join(","): the cells in the order of the header
\* names, then the fields beyond them
RowValues(row, headers) ==
    LET present == SelectSeq(headers, LAMBDA h : h \in DOMAIN row)
    IN  Join([j \in 1..Len(present) |-> row[present[j]].str]
                 \o (IF ParsedExtra \in DOMAIN row THEN row[ParsedExtra].str ELSE <<>>),
             <<",">>)

\* result.data.map((row) => Object.values(row).join(",")).join("\n")
RawOf(result) ==
    Join([i \in 1..Len(result.data) |-> RowValues(result.data[i], result.rawHeaders)], <<"\n">>)

\* the texts pasted, picked as samples or held by files: empty, a header
\* line without rows, one row, one row with a field too many
InputTexts == { <<>>, <<"a", ",", "b">>, <<"a", ",", "b", "\n", "x", ",", "1">>, <<"a", ",", "b", "\n", "x", ",", "1", ",", "2">> }

CsvName == <<"d", ".", "c", "s", "v">>
XlsxName == <<"d", ".", "X", "L", "S", "X">>
XlsName == <<"d", ".", "x", "l", "s">>

File(name, text, fails) == [name |-> name, text |-> text, fails |-> fails]

Files ==
    {File(CsvName, t, "none") : t \in {<<>>, <<"a", ",", "b">>, <<"a", ",", "b", "\n", "x", ",", "1">>}}
    \cup {File(CsvName, <<"a", ",", "b", "\n", "x", ",", "1">>, "text")}
    \cup {File(XlsxName, <<"a", ",", "b", "\n", "x", ",", "1">>, f) :
             f \in {"none", "import", "sheet_to_csv", "thrown value"}}
    \cup {File(XlsName, <<"a", ",", "b", "\n", "x", ",", "1">>, f) : f \in {"arrayBuffer", "read"}}

\* the last parse a handler finished: the handler, the file or text, the
\* settled parse, and a mark that flips with every parse finished
NoParse == [by |-> "none", name |-> <<>>, text |-> <<>>, fails |-> "none",
            parse |-> Rejected, mark |-> 0]

InitInput ==
    /\ store = initialState
    /\ parseErrors = <<>>
    /\ uploads = {}
    /\ lastParse = NoParse
    /\ TableIdle /\ EngineIdle /\ ChartIdle

\* the form of DataInput is on screen: step 1 without a dataset
FormShown == store.currentStep = 1 /\ ~(store.parsedData # None /\ store.columns # None)

\* the handler sets what Accept gives and notes the parse it finished
Finish(done, by, name, text, fails, parse) ==
    /\ parseErrors' = done.errors
    /\ store' = done.store
    /\ lastParse' = [by |-> by, name |-> name, text |-> text, fails |-> fails,
                     parse |-> parse, mark |-> 1 - lastParse.mark]

\* handleParse(text, "paste") of the Parse Data button, disabled for a blank
\* text, and handleParse(ds.csv, "sample", ds.name) of a sample
HandleParseOf(texts, sources) ==
    /\ FormShown
    /\ \E text \in texts, source \in sources :
          /\ source = "paste" => Trim(text) # <<>>
          /\ \E result \in {parseText(text)} :
                 Finish(Accept(store, result, NoDataFound, text, source,
                               IF source = "sample" THEN Some("sample") ELSE None),
                        "handleParse", <<>>, text, "none", Resolved(result))
    /\ UNCHANGED <<uploads, engineVars, tableVars, chartVars>>

HandleParse == HandleParseOf(InputTexts, {"paste", "sample"})

\* handleFileUpload up to its await: a file dropped or picked
StartUploadOf(files) ==
    /\ FormShown
    /\ Cardinality(uploads) < MaxUploads
    /\ \E file \in files \ uploads : uploads' = uploads \cup {file}
    /\ UNCHANGED <<store, parseErrors, lastParse, engineVars, tableVars, chartVars>>

StartUpload == StartUploadOf(Files)

\* handleFileUpload after its await: parseFile has settled; a rejection
\* ends the handler with nothing set
CompleteUpload ==
    \E file \in uploads :
        /\ uploads' = uploads \ {file}
        /\ \E parse \in {parseFile(file)} :
               IF parse.settled = "rejected"
               THEN Finish([errors |-> parseErrors, store |-> store],
                           "handleFileUpload", file.name, file.text, file.fails, parse)
               ELSE \E done \in {Accept(store, parse.result, NoDataFoundInFile,
                                         RawOf(parse.result), "file", Some(file.name))} :
                       Finish(done, "handleFileUpload", file.name, file.text, file.fails, parse)
        /\ UNCHANGED <<engineVars, tableVars, chartVars>>

\* onClear of the preview shown at step 1 once a dataset is loaded
ClearData ==
    /\ store.currentStep = 1 /\ store.parsedData # None /\ store.columns # None
    /\ store' = clearData(store)
    /\ UNCHANGED <<parseErrors, uploads, lastParse, engineVars, tableVars, chartVars>>

\* const chart = selectedChartId ? chartRegistry.get(selectedChartId) : undefined
HasChart(state) ==
    /\ state.selectedChartId # None
    /\ \E k \in 1..Len(chartRegistry) : chartRegistry[k] = state.selectedChartId[1]

\* the validation memo of Mapping
Validation(state) ==
    IF ~HasChart(state) \/ state.columns = None
    THEN [isValid |-> FALSE, errors |-> <<>>, warnings |-> <<>>]
    ELSE validateMapping(ChartDimensions(state.selectedChartId[1]), state.mapping,
                         state.columns[1])

\* the mapped-data effect of the step on screen runs chart.mapData: the one
\* of Mapping returns early unless the mapping is valid, the ones of
\* Customize and Export return early only without chart or data
EffectRuns(state) ==
    /\ state.currentStep \in {3, 4, 5}
    /\ HasChart(state)
    /\ state.parsedData # None
    /\ state.currentStep = 3 => Validation(state).isValid

\* setMappedData(chart.mapData(parsedData, mapping, resolved))
Rendered(state) ==
    IF EffectRuns(state)
    THEN setMappedData(state, ChartMapData(state.selectedChartId[1], state.parsedData[1],
                                           state.mapping, <<>>))
    ELSE state

\* the call of chart.mapData an effect makes: the data it is run on and
\* what validateMapping says of the mapping it is run on
MapDataCall(state) ==
    [data |-> state.parsedData[1], isValid |-> Validation(state).isValid]

\* the store after a handler of a step and the effect of the step then on
\* screen
Shown(state) ==
    /\ store' = Rendered(state)
    /\ lastMapData' = IF EffectRuns(state) THEN Some(MapDataCall(state)) ELSE lastMapData
    /\ UNCHANGED <<parseErrors, uploads, lastParse, engineVars, tableVars,
                   pnByPatterns, mapDataVars, lastCall, heapVars>>

\* a step of the header, reachable up to maxReachedStep, or the Back button
\* of a step
GoToStep ==
    \E step \in 1..store.maxReachedStep :
        /\ step # store.currentStep
        /\ \E state \in {goToStep(store, step)} : Shown(state)

NextInput == HandleParse \/ StartUpload \/ CompleteUpload \/ ClearData \/ GoToStep

SpecInput == InitInput /\ [][NextInput]_vars

(***************************************************************************)
(* Claims about the handlers and parseFile, checked under SpecInput.       *)
(***************************************************************************)
\* a handler has finished a parse in this step, and the parse settled
ParseFinished == lastParse'.mark # lastParse.mark /\ lastParse'.parse.settled = "resolved"

DataFields(st) == <<st.rawData, st.parsedData, st.columns, st.currentStep, st.maxReachedStep>>

\* C19: a parse that yields zero rows is treated as failed by the caller:
\* handleParse and handleFileUpload then hand at least one error message to
\* the error display and leave the store (rawData, parsedData, columns,
\* currentStep, maxReachedStep) unchanged; a parse that yields at least one
\* row is accepted through setData, which advances to step 2, even when
\* row-level errors were reported.
C19_ZeroRowsIsFailure ==
    [][ParseFinished =>
          LET result == lastParse'.parse.result
          IN  IF Len(result.data) = 0
              THEN /\ parseErrors' # <<>>
                   /\ DataFields(store') = DataFields(store)
                   /\ store' = store
              ELSE /\ store'.parsedData = Some(result.data)
                   /\ store'.columns = Some(result.columns)
                   /\ store'.rawData # None
                   /\ store'.currentStep = 2
                   /\ store'.maxReachedStep = 2
                   /\ parseErrors' = result.errors]_vars

\* a row with a field too many has been accepted together with its error,
\* and a late upload without rows has then left that dataset alone
C19_Witness ==
    /\ store.rawData = Some(<<"a", ",", "b", "\n", "x", ",", "1", ",", "2">>)
    /\ store.currentStep = 2
    /\ lastParse.by = "handleFileUpload"
    /\ lastParse.parse.settled = "resolved"
    /\ Len(lastParse.parse.result.data) = 0
    /\ parseErrors = <<NoDataFoundInFile>>

IsSpreadsheet(name) ==
    \E i \in 1..Len(name) :
        /\ name[i] = "."
        /\ \A j \in (i + 1)..Len(name) : name[j] # "."
        /\ ToLowerCase(SubSeq(name, i + 1, Len(name))) \in {<<"x", "l", "s", "x">>, <<"x", "l", "s">>}

\* C20: for an .xlsx or .xls file parseFile resolves, either with the result
\* of parseText on the converted first sheet or, when a step of loading the
\* library, reading the buffer or converting the sheet throws, with zero
\* rows, no columns, no headers and exactly one error message that wraps the
\* cause; it never returns rows together with a conversion error.
C20_SpreadsheetConversionAtomic ==
    lastParse.by = "handleFileUpload" /\ IsSpreadsheet(lastParse.name) =>
        LET result == lastParse.parse.result
        IN  /\ lastParse.parse.settled = "resolved"
            /\ IF lastParse.fails = "none"
               THEN result = parseText(lastParse.text)
               ELSE /\ NoTable(result)
                    /\ Len(result.errors) = 1
                    /\ result.errors[1].text = "Failed to parse Excel file"
                    /\ result.errors[1].message \in {lastParse.fails, "Unknown error"}
            /\ \A i \in 1..Len(result.errors) :
                  result.errors[i].text = "Failed to parse Excel file" => Len(result.data) = 0

C20_Witness ==
    /\ lastParse.by = "handleFileUpload"
    /\ lastParse.name = XlsxName
    /\ lastParse.fails = "sheet_to_csv"
    /\ lastParse.parse.result.errors = <<ExcelError("sheet_to_csv")>>
    /\ lastParse.parse.result.rowCount = 0

\* C21: a failure of file acquisition surfaces as a single descriptive error
\* and never as a raised exception or partial output: for every uploaded
\* file, whatever its extension, if reading the file's content fails then
\* parseFile still resolves with a ParseResult of zero rows and one error
\* message, and handleFileUpload records that message as a parse error.
C21_AcquisitionFailureIsOneError ==
    lastParse.by = "handleFileUpload" /\ lastParse.fails # "none" =>
        /\ lastParse.parse.settled = "resolved"
        /\ Len(lastParse.parse.result.data) = 0
        /\ Len(lastParse.parse.result.errors) = 1
        /\ parseErrors = lastParse.parse.result.errors

(***************************************************************************)
(* The store on its own (app/store): its actions called in any order with  *)
(* any step, as a caller of the store's interface may.                     *)
(***************************************************************************)
\* the steps goToStep is called with
Steps == 1..5

\* the texts of the datasets handed to setData
DataTexts == {t \in InputTexts : Len(parseText(t).data) > 0}

ChartIds == {"column-chart", "bar-chart"}

InitStore ==
    /\ store = initialState
    /\ parseErrors = <<>>
    /\ uploads = {}
    /\ lastParse = NoParse
    /\ TableIdle /\ EngineIdle /\ ChartIdle

\* the store after a call, and the call noted
Called(name, state) ==
    /\ store' = state
    /\ lastCall' = name
    /\ UNCHANGED <<parseErrors, uploads, lastParse, engineVars, tableVars,
                   pnByPatterns, mapDataVars, lastMapData, heapVars>>

StoreGoToStep == \E step \in Steps : Called("goToStep", goToStep(store, step))

StoreSetData ==
    \E text \in DataTexts, source \in {"paste", "file"} :
        \E result \in {parseText(text)} :
            Called("setData", setData(store, text, result.data, result.columns, source,
                                      IF source = "file" THEN Some(CsvName) ELSE None))

StoreClearData == Called("clearData", clearData(store))

StoreSelectChart == \E chartId \in ChartIds : Called("selectChart", selectChart(store, chartId))

StoreReset == Called("reset", reset(store))

NextStore == StoreGoToStep \/ StoreSetData \/ StoreClearData \/ StoreSelectChart \/ StoreReset

SpecStore == InitStore /\ [][NextStore]_vars

(***************************************************************************)
(* Claims about the store, checked under SpecStore.                        *)
(***************************************************************************)
StepsInOrder(state) ==
    /\ 1 <= state.currentStep
    /\ state.currentStep <= state.maxReachedStep
    /\ state.maxReachedStep <= 5

\* C29: after any sequence of goToStep(s) with s in 1..5, setData,
\* clearData, selectChart and reset, 1 <= currentStep <= maxReachedStep <= 5
\* holds; goToStep never lowers maxReachedStep, setData sets it to 2, and
\* clearData and reset set it to 1.
C29_StepsWithinReach ==
    /\ []StepsInOrder(store)
    /\ [][/\ lastCall' = "goToStep" => store'.maxReachedStep >= store.maxReachedStep
          /\ lastCall' = "setData" => store'.maxReachedStep = 2
          /\ lastCall' \in {"clearData", "reset"} => store'.maxReachedStep = 1]_vars

\* a chart had been selected, so step 3 reached, and setData has then
\* lowered the reach to 2
C29_Witness ==
    /\ lastCall = "setData"
    /\ store.currentStep = 2
    /\ store.maxReachedStep = 2
    /\ store.selectedChartId # None

(***************************************************************************)
(* The workflow: the five steps with the handlers of their components      *)
(* (DataInput, ChartSelect, Mapping, Customize, Export), the header of     *)
(* AppShell and the mapped-data effects.  One dataset is pasted; a file    *)
(* with other columns, none of them a number, and a file without rows are  *)
(* uploaded.                                                               *)
(***************************************************************************)
WorkflowTexts == { <<"a", ",", "b", "\n", "x", ",", "3">> }

WorkflowFiles ==
    { File(CsvName, <<"c", ",", "d", "\n", "y", ",", "z">>, "none"),
      File(CsvName, <<"a", ",", "b">>, "none") }

\* Parse Data of DataInput
PasteData == HandleParseOf(WorkflowTexts, {"paste"})

\* a file dropped on DataInput
UploadFile == StartUploadOf(WorkflowFiles)

\* a card of ChartSelect clicked; the cards of incompatible charts are
\* disabled
SelectChart ==
    /\ store.currentStep = 2
    /\ \E k \in 1..Len(chartRegistry) :
          /\ store.columns # None => chartRegistry[k] \in getCompatible(store.columns[1])
          /\ \E state \in {selectChart(store, chartRegistry[k])} : Shown(state)

\* Mapping shows its slots when there are a chart and columns
MappingShown == store.currentStep = 3 /\ HasChart(store) /\ store.columns # None

\* handleDragEnd: a column dropped on a slot of a dimension
DragColumn ==
    /\ MappingShown
    /\ \E d \in 1..Len(ChartDimensions(store.selectedChartId[1])),
          c \in 1..Len(store.columns[1]) :
          \E state \in {setMapping(store, ChartDimensions(store.selectedChartId[1])[d].id,
                                   StringEntry(store.columns[1][c].name))} : Shown(state)

\* the Remove button of a slot, shown when the mapped column is found
RemoveMapping ==
    /\ MappingShown
    /\ \E d \in DOMAIN store.mapping :
          /\ \E c \in 1..Len(store.columns[1]) :
                store.mapping[d] = StringEntry(store.columns[1][c].name)
          /\ \E state \in {clearMapping(store, d)} : Shown(state)

\* the continue button of Mapping, disabled unless validation.isValid
ContinueToCustomize ==
    /\ MappingShown
    /\ Validation(store).isValid
    /\ \E state \in {goToStep(store, 4)} : Shown(state)

\* the Export button of Customize
ContinueToExport ==
    /\ store.currentStep = 4
    /\ \E state \in {goToStep(store, 5)} : Shown(state)

NextWorkflow ==
    \/ PasteData \/ UploadFile \/ CompleteUpload \/ ClearData \/ GoToStep
    \/ SelectChart \/ DragColumn \/ RemoveMapping
    \/ ContinueToCustomize \/ ContinueToExport

SpecWorkflow == InitInput /\ [][NextWorkflow]_vars

(***************************************************************************)
(* Claims about the workflow, checked under SpecWorkflow.                  *)
(***************************************************************************)
\* C28: the prerequisites of the steps hold in every state reachable
\* through the interface: currentStep >= 2 implies that parsedData and
\* columns are not null, currentStep >= 3 implies that selectedChartId is
\* not null.
C28_StepPrerequisites ==
    /\ store.currentStep >= 2 => (store.parsedData # None /\ store.columns # None)
    /\ store.currentStep >= 3 => store.selectedChartId # None

\* the Export step, reached with a dataset and a chart
C28_Witness ==
    /\ store.currentStep = 5
    /\ store.parsedData # None
    /\ store.selectedChartId = Some("column-chart")

\* C22: validation errors block downstream use: in every reachable state of
\* the workflow the Customize and Export steps (currentStep 4 or 5) are
\* active only while validateMapping of the current mapping reports
\* isValid = TRUE, and chart.mapData is run on a mapping only while
\* validateMapping reports it valid, also after the user has returned to the
\* Mapping step and removed a required mapping.
C22_ErrorsBlockDownstream ==
    /\ store.currentStep \in {4, 5} => Validation(store).isValid
    /\ lastMapData # None => lastMapData[1].isValid

\* the names of the columns the mapping stores
MappedColumnNames(state) ==
    UNION {{state.mapping[d].names[i] : i \in 1..Len(state.mapping[d].names)} :
              d \in DOMAIN state.mapping}

ColumnNamesOf(state) ==
    IF state.columns = None THEN {}
    ELSE {state.columns[1][c].name : c \in 1..Len(state.columns[1])}

\* C27: the mapping always refers to the current dataset: in every reachable
\* state of the workflow, also when a pending file upload completes after
\* another dataset has been loaded, a chart selected and columns mapped,
\* every column name stored in mapping is the name of a column of the
\* store's current columns, and mappedData, when not null, was computed from
\* the current parsedData.
C27_MappingRefersToCurrentData ==
    /\ MappedColumnNames(store) \subseteq ColumnNamesOf(store)
    /\ store.mappedData # None =>
          /\ store.parsedData # None
          /\ lastMapData # None
          /\ lastMapData[1].data = store.parsedData[1]

(***************************************************************************)
(* The engine on the caller's arrays.  heap holds the arrays and objects a *)
(* caller passes by reference, one to a cell; an engine function reads     *)
(* them through their references, and the arrays it makes itself are new   *)
(* cells behind them, unreachable once the call has returned.              *)
(***************************************************************************)
\* most calls of a function on the same arguments
MaxCalls == 2

\* a new array: a new cell behind the cells there are
New(cells, contents) == [heap |-> Append(cells, contents), ref |-> Len(cells) + 1]

\* a spread that hands back the array it is given
SpreadAliased(cells, ref) == [heap |-> cells, ref |-> ref]

\* [...values]: a new array with the elements of values
Spread(cells, ref) == New(cells, cells[ref])

\* .sort((a, b) => a - b): sorts the array in place and returns it
Sort(cells, ref) ==
    [heap |-> [cells EXCEPT ![ref] = SortAscending(cells[ref])], ref |-> ref]

\* sorted.length % 2 ? sorted[mid] : (sorted[mid - 1] + sorted[mid]) / 2
MiddleOf(sorted) ==
    LET mid == Len(sorted) \div 2
    IN  IF Len(sorted) % 2 # 0 THEN sorted[mid + 1]
        ELSE RatDivInt(RatAdd(sorted[mid], sorted[mid + 1]), 2)

\* aggregate(values, method) on the array values refers to: the median
\* spreads and sorts, every other method only reads
aggregateAt(cells, values, method) ==
    IF method = "median" /\ Len(cells[values]) # 0
    THEN LET copy == Spread(cells, values)
             sorted == Sort(copy.heap, copy.ref)
         IN  [heap |-> sorted.heap, result |-> MiddleOf(sorted.heap[sorted.ref])]
    ELSE [heap |-> cells, result |-> aggregate(cells[values], method)]

\* Array.from(groups.entries()).map(...): aggregate called on the arrays of
\* the first n groups, which are the cells behind first
RECURSIVE AggregateEach(_, _, _, _, _)
AggregateEach(cells, first, groups, n, aggregation) ==
    IF n = 0 THEN [heap |-> cells, result |-> <<>>]
    ELSE LET before == AggregateEach(cells, first, groups, n - 1, aggregation)
             one == aggregateAt(before.heap, first + n, aggregation)
         IN  [heap |-> one.heap,
              result |-> Append(before.result,
                                [category |-> groups[n].category, value |-> one.result])]

\* groupAndAggregate on the array data refers to: the arrays of the Map are
\* new arrays, filled by push
groupAndAggregateAt(cells, data, categoryColumn, valueColumn, aggregation) ==
    LET groups == GroupRows(cells[data], Len(cells[data]), categoryColumn, valueColumn)
        filled == cells \o [g \in 1..Len(groups) |-> groups[g].values]
    IN  AggregateEach(filled, Len(cells), groups, Len(groups), aggregation)

\* detectColumnTypes on the arrays data and headers refer to: slice, map and
\* filter make new arrays, of which the sample is kept here
detectColumnTypesAt(cells, data, headers) ==
    [heap |-> New(cells, SubSeq(cells[data], 1, Least(SAMPLE_SIZE, Len(cells[data])))).heap,
     result |-> detectColumnTypes(cells[data], cells[headers])]

\* validateMapping on the objects dimensions, mapping and columns refer to:
\* errors and warnings are new arrays, filled by push
validateMappingAt(cells, dimensions, mapping, columns) ==
    LET result == validateMapping(cells[dimensions], cells[mapping], cells[columns])
    IN  [heap |-> New(New(cells, result.errors).heap, result.warnings).heap,
         result |-> result]

chartHeaders == <<"Region", "Sales", "Series">>

chartColumns ==
    << [name |-> "Region", confirmedType |-> "string"],
       [name |-> "Sales", confirmedType |-> "number"],
       [name |-> "Series", confirmedType |-> "string"] >>

\* the cells a caller holds when it calls the function
ArgumentsOf(fn) ==
    CASE fn = "aggregate" ->
             {<<values>> : values \in UNION {[1..n -> AggregateNumbers] : n \in 0..MaxValues}}
      [] fn = "groupAndAggregate" -> {<<data>> : data \in ChartTables}
      [] fn = "detectColumnTypes" -> {<<data, chartHeaders>> : data \in ChartTables}
      [] fn = "validateMapping" ->
             {<<columnChartDimensions, mapping, chartColumns>> : mapping \in ChartMappings}

InitHeap ==
    /\ \E fn \in {"aggregate", "groupAndAggregate", "detectColumnTypes", "validateMapping"} :
          /\ call = [NoCall EXCEPT !.fn = fn]
          /\ heap \in ArgumentsOf(fn)
    /\ pnByPatterns = <<>> /\ MapDataIdle /\ FlowIdle
    /\ EngineIdle /\ TableIdle /\ InputIdle

\* the call returns: the caller's cells as the call leaves them, and the
\* result
Returns(frame, method) ==
    /\ heap' = SubSeq(frame.heap, 1, Len(heap))
    /\ call' = [call EXCEPT !.method = method, !.result = frame.result, !.count = @ + 1]
    /\ UNCHANGED <<engineVars, tableVars, inputVars, pnByPatterns, mapDataVars, flowVars>>

CallAggregate ==
    /\ call.fn = "aggregate" /\ call.count < MaxCalls
    /\ \E method \in AggregationTypes :
          \E frame \in {aggregateAt(heap, 1, method)} : Returns(frame, method)

CallGroupAndAggregate ==
    /\ call.fn = "groupAndAggregate" /\ call.count < MaxCalls
    /\ \E aggregation \in AggregationTypes :
          \E frame \in {groupAndAggregateAt(heap, 1, "Region", "Sales", aggregation)} :
              Returns(frame, aggregation)

CallDetectColumnTypes ==
    /\ call.fn = "detectColumnTypes" /\ call.count < MaxCalls
    /\ \E frame \in {detectColumnTypesAt(heap, 1, 2)} : Returns(frame, "none")

CallValidateMapping ==
    /\ call.fn = "validateMapping" /\ call.count < MaxCalls
    /\ \E frame \in {validateMappingAt(heap, 1, 2, 3)} : Returns(frame, "none")

NextHeap ==
    CallAggregate \/ CallGroupAndAggregate \/ CallDetectColumnTypes \/ CallValidateMapping

SpecHeap == InitHeap /\ [][NextHeap]_vars

(***************************************************************************)
(* Claims about the engine's effect on its arguments, checked under        *)
(* SpecHeap.                                                               *)
(***************************************************************************)
\* C23: the engine never mutates its inputs and keeps no state between
\* calls: after a call of detectColumnTypes, validateMapping, aggregate or
\* groupAndAggregate the arrays and objects passed in are as they were (the
\* median sorts a copy), and a call repeated on the same arguments returns
\* an equal result.
C23_EngineLeavesInputsAlone ==
    [][call'.count > call.count =>
          /\ heap' = heap
          /\ (call.count > 0 /\ call'.method = call.method) => call'.result = call.result]_vars

\* the median has been taken twice of a list that is not in ascending order
C23_Witness ==
    /\ call.fn = "aggregate"
    /\ call.method = "median"
    /\ call.count = 2
    /\ heap[1] # SortAscending(heap[1])

====
